---- MODULE Spec2Model ----
(***************************************************************************)
(* Model of qa-test-plan-automation:                                       *)
(*  - SheetCustomizer.prune_platform_tabs and customize_sheet_with_goals   *)
(*    (src/sheet_customizer.py), run against a model of the remote         *)
(*    spreadsheet (its tab list and the rows of every tab);                *)
(*  - JiraClient._convert_adf_to_text and _extract_text_from_adf_node      *)
(*    (src/jira_client.py), on Python values;                              *)
(*  - the segmentation of the goals text into goals;                       *)
(*  - JiraTicketParser._extract_platform_from_labels (src/jira_parser.py); *)
(*  - create_qa_test_plan and _qa_plan_already_exists (src/app.py), run    *)
(*    against the comments of one issue.                                   *)
(*                                                                         *)
(* Python strings are sequences of one-character strings, so that lower(), *)
(* find(), strip(), title(), slicing and the substring test `in` are       *)
(* computed and not assumed.                                               *)
(***************************************************************************)
EXTENDS Integers, Sequences, FiniteSets, TLC

(***************************************************************************)
(* Bounds of the model.                                                    *)
(***************************************************************************)
\* largest number of tabs of a spreadsheet
MaxTabs == 3
\* largest number of tabs of a spreadsheet that is customized
MaxCustomizeTabs == 2
\* largest number of entries of a goals argument
MaxGoals == 5
\* rows of every tab of the template before any call
TemplateRows == 32
\* the children of a paragraph, the items of a list, the blocks of a document of
\* several blocks, and the heading levels of the documents that are extracted
MaxInline == 2
MaxItems == 2
MaxBlocks == 2
MaxLevel == 2
\* longest goals text that is segmented
MaxTextLen == 8

(***************************************************************************)
(* Python str operations.                                                  *)
(***************************************************************************)
UpperChars ==
  <<"A","B","C","D","E","F","G","H","I","J","K","L","M",
    "N","O","P","Q","R","S","T","U","V","W","X","Y","Z">>

LowerChars ==
  <<"a","b","c","d","e","f","g","h","i","j","k","l","m",
    "n","o","p","q","r","s","t","u","v","w","x","y","z">>

UpperSet == {UpperChars[i] : i \in 1..Len(UpperChars)}

\* the lower-case letter of every upper-case letter
LowerMap ==
  [c \in UpperSet |-> LowerChars[CHOOSE i \in 1..Len(UpperChars) : UpperChars[i] = c]]

\* one character of str.lower()
LowerChar(c) == IF c \in UpperSet THEN LowerMap[c] ELSE c

\* str.lower(), computed
LowerOf(s) == [i \in 1..Len(s) |-> LowerChar(s[i])]

\* the substring test `sub in s`
Contains(s, sub) ==
  \E k \in 0..(Len(s) - Len(sub)) :
    \A j \in 1..Len(sub) : s[k + j] = sub[j]

\* str.find(c) for a single character: 0-based index of the first c, or -1
Find(s, c) ==
  IF \E i \in 1..Len(s) : s[i] = c
    THEN (CHOOSE i \in 1..Len(s) : s[i] = c /\ \A j \in 1..(i - 1) : s[j] /= c) - 1
    ELSE -1

Whitespace == {" ", "\n", "\t"}

\* str.strip(): drop leading and trailing whitespace
Strip(s) ==
  IF \A i \in 1..Len(s) : s[i] \in Whitespace
    THEN << >>
    ELSE LET first == CHOOSE i \in 1..Len(s) :
                        s[i] \notin Whitespace /\ \A j \in 1..(i - 1) : s[j] \in Whitespace
             last  == CHOOSE i \in 1..Len(s) :
                        s[i] \notin Whitespace /\ \A j \in (i + 1)..Len(s) : s[j] \in Whitespace
         IN  SubSeq(s, first, last)

(***************************************************************************)
(* Titles.                                                                 *)
(***************************************************************************)
TokOptimizely == <<"[","O","p","t","i","m","i","z","e","l","y","]">>
TokConvert    == <<"[","C","o","n","v","e","r","t","]">>
TokVWO        == <<"[","V","W","O","]">>
TokMonetate   == <<"[","M","o","n","e","t","a","t","e","]">>

\* platform_tokens of prune_platform_tabs, in list order
platform_tokens == <<TokOptimizely, TokConvert, TokVWO, TokMonetate>>

\* the title of the tab that is never deleted
ComplexityRisk ==
  <<"C","o","m","p","l","e","x","i","t","y"," ","&"," ","R","i","s","k">>

SuffixQA == <<" ","Q","A">>

TOptimizely   == TokOptimizely \o SuffixQA
TOptimizelyV2 == LowerOf(TokOptimizely) \o <<" ","v","2">>
TConvert      == TokConvert \o SuffixQA
TVWO          == TokVWO \o SuffixQA
TMonetate     == TokMonetate \o SuffixQA
THidden       == <<"h","i","d","d","e","n">>
TVsConvert    == TokVWO \o <<" ","v","s"," ">> \o TokConvert
TOther        == <<"[","O","t","h","e","r","]">> \o SuffixQA
\* titles that are asked for but are no tab of the template
TOptimizelyUp == <<"[","O","P","T","I","M","I","Z","E","L","Y","]"," ","P","1">>
TWeb          == <<"W","e","b">>

\* the tabs a spreadsheet is drawn from, each with the sheetId the backend gave it
MasterTabs ==
  << [title |-> TOptimizely,    sheetId |-> 101],
     [title |-> TOptimizelyV2,  sheetId |-> 102],
     [title |-> TConvert,       sheetId |-> 103],
     [title |-> TVWO,           sheetId |-> 104],
     [title |-> TMonetate,      sheetId |-> 105],
     [title |-> ComplexityRisk, sheetId |-> 106],
     [title |-> THidden,        sheetId |-> 107],
     [title |-> TVsConvert,     sheetId |-> 108],
     [title |-> TOther,         sheetId |-> 109] >>

\* the titles a caller passes as selected_platform_tab
RequestedTitles ==
  {MasterTabs[i].title : i \in 1..Len(MasterTabs)} \cup {TOptimizelyUp, TWeb}

\* the titles a caller passes as tab_name
RequestedTabNames ==
  {TMonetate, TVWO, TConvert, TOptimizely, TOptimizelyUp, THidden, TOther, TWeb}

SheetIds == {MasterTabs[i].sheetId : i \in 1..Len(MasterTabs)}

\* str.lower() of the titles and tokens of the model, computed once
LowerTable ==
  [s \in RequestedTitles \cup {platform_tokens[k] : k \in 1..Len(platform_tokens)} |->
     LowerOf(s)]

\* str.lower()
Lower(s) == IF s \in DOMAIN LowerTable THEN LowerTable[s] ELSE LowerOf(s)

RECURSIVE PickTabs(_, _)
\* the tabs of MasterTabs at the indices of idx, in increasing or (rev) decreasing order
PickTabs(idx, rev) ==
  IF idx = {} THEN << >>
  ELSE LET i == IF rev THEN CHOOSE x \in idx : \A y \in idx : y <= x
                       ELSE CHOOSE x \in idx : \A y \in idx : x <= y
       IN  <<MasterTabs[i]>> \o PickTabs(idx \ {i}, rev)

\* the tab lists of up to n tabs of pool: titles and ids are unique, and there is a tab
TabListsOf(pool, n) ==
  {PickTabs(idx, rev) :
     idx \in {s \in SUBSET pool : Cardinality(s) \in 1..n},
     rev \in BOOLEAN}

\* the tab lists of the spreadsheets that are pruned
TabLists == TabListsOf(1..Len(MasterTabs), MaxTabs)

\* the tab lists of the spreadsheets that are customized: THidden stands for the tabs
\* without a platform token
CustomizeTabLists ==
  TabListsOf({i \in 1..Len(MasterTabs) : MasterTabs[i].title /= ComplexityRisk},
             MaxCustomizeTabs)

(***************************************************************************)
(* The remote spreadsheet and the state of the call in progress.           *)
(***************************************************************************)
VARIABLES
  tabs,                  \* the spreadsheet's tabs, in order: [title, sheetId]
  grid,                  \* sheetId -> the rows of that tab, top to bottom, for the
                         \* tabs whose rows differ from the template's
  pc,                    \* "idle", or the request the call in progress issues next
  reqs,                  \* the API requests the current (or last) call has issued
  result,                \* how the last call ended: [kind, val]
  selected_platform_tab, \* prune_platform_tabs: its argument
  delete_requests,       \* prune_platform_tabs: the sheetIds scheduled for deletion
  tab_name,              \* customize_sheet_with_goals: argument, then the resolved title
  goals,                 \* customize_sheet_with_goals: argument, then filtered and stripped
  tab_id,                \* customize_sheet_with_goals: << >> for None, <<id>> otherwise
  start_row,             \* customize_sheet_with_goals
  rows_to_insert,        \* customize_sheet_with_goals
  args,                  \* history: the arguments of the customize_sheet_with_goals call
  tabs0,                 \* history: tabs when the current call began
  grid0,                 \* history: grid when the current call began
  repeat,                \* history: the current call repeats the call before it, which
                         \* returned normally, with the same arguments
  prevDeleted,           \* history: the number of tabs the call before the current one deleted
  error_log,             \* the logger.error records of the tab-not-found branch
  ncalls,                \* history: calls begun so far
  adf_input,             \* JiraClient: the argument of the extractor call
  adf_fn,                \* JiraClient: "none", or the extractor function that was called
  adf_result,            \* JiraClient: what the call returned, or that it raised
  plain_text,            \* the goals text that is segmented
  segmented,             \* the segmentation was called
  goal_list,             \* what the segmentation returned
  labels,                \* JiraTicketParser: the labels of the last platform extraction
  platform,              \* JiraTicketParser: what that extraction returned, << >> before
  prev_platform,         \* history: what the extraction before it returned
  empty_results,         \* history: what the extractions of an empty label list returned
  comments,              \* the issue: the bodies of its comments, oldest first
  comments0,             \* history: comments when the current run began
  app_pc,                \* create_qa_test_plan: "idle", or the step the run takes next
  status,                \* create_qa_test_plan: the status returned, "raise", or "none"
  effects,               \* history: the copies, customizations and comment posts of the run
  check,                 \* what _qa_plan_already_exists returned to the current run
  runs                   \* history: runs begun so far

\* the variables of the spreadsheet and of a SheetCustomizer call
sheetVars ==
  <<tabs, grid, pc, reqs, result, selected_platform_tab, delete_requests,
    tab_name, goals, tab_id, start_row, rows_to_insert, args, tabs0, grid0, repeat,
    prevDeleted, error_log, ncalls>>

\* the variables of the ticket text: the extractor and the segmentation
adfVars == <<adf_input, adf_fn, adf_result>>
segVars == <<plain_text, segmented, goal_list>>
platVars == <<labels, platform, prev_platform, empty_results>>
appVars == <<comments, comments0, app_pc, status, effects, check, runs>>
jiraVars == <<adfVars, segVars, platVars, appVars>>

vars == <<sheetVars, jiraVars>>

pruneLocals == <<selected_platform_tab, delete_requests>>
customizeLocals == <<tab_name, goals, tab_id, start_row, rows_to_insert>>

NoResult   == [kind |-> "none",   val |-> 0]
\* a bug: the exception is swallowed and 0 is returned
Raised_swallowed == [kind |-> "return", val |-> 0]

\* HttpError, re-raised
Raised     == [kind |-> "raise",  val |-> 0]
Return(v)  == [kind |-> "return", val |-> v]
\* Python's True, as the int it equals
PyTrue == Return(1)

PasteTypes ==
  {"PASTE_FORMAT", "PASTE_DATA_VALIDATION", "PASTE_CONDITIONAL_FORMATTING", "PASTE_FORMULA"}

\* row i of the template: orig names the row, cells holds the values written into it
\* (column letter -> text), attr names, per paste kind, the row whose formats,
\* validations, conditional formats and formulas its copied columns carry
TemplateRow(i) == [orig |-> i, cells |-> << >>, attr |-> [t \in PasteTypes |-> i]]

\* a row made by insertDimension
BlankRow == [orig |-> 0, cells |-> << >>, attr |-> [t \in PasteTypes |-> 0]]

TemplateGrid == [i \in 1..TemplateRows |-> TemplateRow(i)]

\* the rows of the tab with this sheetId in grid g
Rows(g, id) == IF id \in DOMAIN g THEN g[id] ELSE TemplateGrid

Titles(ts) == [i \in 1..Len(ts) |-> ts[i].title]
TitleSet(ts) == {ts[i].title : i \in 1..Len(ts)}
IdSet(ts) == {ts[i].sheetId : i \in 1..Len(ts)}

\* no extractor call is made
AdfIdle ==
  /\ adf_input = << >>
  /\ adf_fn = "none"
  /\ adf_result = << >>

\* no segmentation is made
SegmentIdle ==
  /\ plain_text = << >>
  /\ segmented = FALSE
  /\ goal_list = << >>

\* no platform extraction is made
PlatformIdle ==
  /\ labels = << >>
  /\ platform = << >>
  /\ prev_platform = << >>
  /\ empty_results = {}

\* no run of create_qa_test_plan is made, the issue has no comment
AppIdle ==
  /\ comments = << >>
  /\ comments0 = << >>
  /\ app_pc = "idle"
  /\ status = "none"
  /\ effects = << >>
  /\ check = [exists |-> FALSE, failed |-> FALSE]
  /\ runs = 0

JiraIdle == AdfIdle /\ SegmentIdle /\ PlatformIdle /\ AppIdle

\* the spreadsheet is one of lists, no call is in progress
SheetInit(lists) ==
  /\ tabs \in lists
  /\ grid = << >>
  /\ pc = "idle"
  /\ reqs = << >>
  /\ result = NoResult
  /\ selected_platform_tab = << >>
  /\ delete_requests = << >>
  /\ tab_name = << >>
  /\ goals = << >>
  /\ tab_id = << >>
  /\ start_row = 0
  /\ rows_to_insert = 0
  /\ args = [tab_name |-> << >>, goals |-> << >>]
  /\ tabs0 = tabs
  /\ grid0 = grid
  /\ repeat = FALSE
  /\ prevDeleted = 0
  /\ error_log = << >>
  /\ ncalls = 0

InitWith(lists) == SheetInit(lists) /\ JiraIdle

\* a spreadsheet copied from the template, before any call
Init == InitWith(TabLists)

InitCustomize == InitWith(CustomizeTabLists)

(***************************************************************************)
(* The spreadsheet backend.                                                *)
(***************************************************************************)
\* the requests of the log: what was asked, and whether the backend answered (ok) or
\* execute() raised HttpError
GetRequest(ok) == [kind |-> "get", ok |-> ok]
\* a bug: only the first request of the list is sent
BatchUpdate_first(requests, ok) ==
  [kind |-> "batchUpdate", requests |-> <<Head(requests)>>, ok |-> ok]

\* spreadsheets().batchUpdate(body={'requests': requests}).execute()
BatchUpdate(requests, ok) == [kind |-> "batchUpdate", requests |-> requests, ok |-> ok]

RECURSIVE KeepTabs(_, _)
\* the tabs of ts whose sheetId is not in ids, in order
KeepTabs(ts, ids) ==
  IF ts = << >> THEN << >>
  ELSE (IF Head(ts).sheetId \in ids THEN << >> ELSE <<Head(ts)>>) \o KeepTabs(Tail(ts), ids)

\* the sheetIds a batch of deleteSheet requests names
DeletedIds(requests) == {requests[i].sheetId : i \in 1..Len(requests)}

(***************************************************************************)
(* SheetCustomizer.prune_platform_tabs                                     *)
(***************************************************************************)
NoToken == << >>

RECURSIVE FirstToken(_, _)
FirstToken(sel, i) ==
  IF i > Len(platform_tokens) THEN NoToken
  ELSE IF Contains(Lower(sel), Lower(platform_tokens[i])) THEN platform_tokens[i]
  ELSE FirstToken(sel, i + 1)

\* selected_token: the first recognized token the selected title contains, or None
selected_token(sel) == FirstToken(sel, 1)

\* a bug: the guard against an unlocated selection is missing
selected_exists_unguarded(sheets, sel, tok) == TRUE

\* selected_exists, given selected_token
selected_exists(sheets, sel, tok) ==
  \E i \in 1..Len(sheets) :
    \/ sheets[i].title = sel
    \/ /\ tok /= NoToken
       /\ Contains(Lower(sheets[i].title), Lower(tok))

\* a bug: the tokens are compared with their case
is_platform_tab_cased(title) ==
  \E k \in 1..Len(platform_tokens) : Contains(title, platform_tokens[k])

\* a bug: every tab counts as a platform tab
is_platform_tab_any(title) == TRUE

\* any(token.lower() in title.lower() for token in platform_tokens)
is_platform_tab(title) ==
  \E k \in 1..Len(platform_tokens) : Contains(Lower(title), Lower(platform_tokens[k]))

is_selected_platform_tab(title, tok) ==
  /\ tok /= NoToken
  /\ Contains(Lower(title), Lower(tok))

\* a bug: every recognized platform tab is scheduled, the selected one too
Scheduled_all(title, sel, tok) == is_platform_tab(title)

\* the body of the scheduling loop: is the tab with this title scheduled?
Scheduled(title, sel, tok) ==
  IF title = sel \/ title = ComplexityRisk THEN FALSE
  ELSE is_platform_tab(title) /\ ~is_selected_platform_tab(title, tok)

RECURSIVE ScheduleDeletes_first(_, _, _)
\* a bug: the loop ends at the first tab it schedules
ScheduleDeletes_first(sheets, sel, tok) ==
  IF sheets = << >> THEN << >>
  ELSE IF Scheduled(Head(sheets).title, sel, tok)
    THEN <<[op |-> "deleteSheet", sheetId |-> Head(sheets).sheetId]>>
    ELSE ScheduleDeletes_first(Tail(sheets), sel, tok)

RECURSIVE ScheduleDeletes(_, _, _)
\* delete_requests after the scheduling loop, in sheet order
ScheduleDeletes(sheets, sel, tok) ==
  IF sheets = << >> THEN << >>
  ELSE (IF Scheduled(Head(sheets).title, sel, tok)
          THEN <<[op |-> "deleteSheet", sheetId |-> Head(sheets).sheetId]>>
          ELSE << >>)
       \o ScheduleDeletes(Tail(sheets), sel, tok)

\* the call up to the batched delete: the metadata fetch, the guard, the scheduling loop
PruneCall(sel) ==
  /\ pc = "idle"
  /\ UNCHANGED jiraVars
  /\ UNCHANGED error_log
  /\ repeat' = (result.kind = "return" /\ selected_platform_tab = sel)
  /\ prevDeleted' = Len(tabs0) - Len(tabs)
  /\ tabs0' = tabs
  /\ grid0' = grid
  /\ selected_platform_tab' = sel
  /\ UNCHANGED <<tabs, grid, args, ncalls>>
  /\ UNCHANGED customizeLocals
  /\ \E ok \in BOOLEAN :
       LET tok == selected_token(sel) IN
       /\ reqs' = <<GetRequest(ok)>>
       /\ IF ~ok
            THEN \* spreadsheets().get() raised HttpError
                 /\ delete_requests' = << >>
                 /\ result' = Raised
                 /\ pc' = "idle"
          ELSE IF ~selected_exists(tabs, sel, tok)
            THEN /\ delete_requests' = << >>
                 /\ result' = PyTrue
                 /\ pc' = "idle"
          ELSE /\ delete_requests' = ScheduleDeletes(tabs, sel, tok)
               /\ IF delete_requests' = << >>
                    THEN result' = PyTrue /\ pc' = "idle"
                    ELSE result' = NoResult /\ pc' = "prune_batch"

\* the one batchUpdate that deletes the scheduled tabs
PruneBatchUpdate ==
  /\ pc = "prune_batch"
  /\ UNCHANGED jiraVars
  /\ UNCHANGED error_log
  /\ pc' = "idle"
  /\ UNCHANGED <<selected_platform_tab, delete_requests, args, tabs0, grid0, repeat,
                 prevDeleted, ncalls>>
  /\ UNCHANGED customizeLocals
  /\ \E ok \in BOOLEAN :
       /\ reqs' = Append(reqs, BatchUpdate(delete_requests, ok))
       /\ IF ok
            THEN /\ tabs' = KeepTabs(tabs, DeletedIds(delete_requests))
                 /\ grid' = [id \in DOMAIN grid \cap IdSet(tabs') |-> grid[id]]
                 /\ result' = PyTrue
            ELSE \* HttpError: nothing was applied
                 /\ UNCHANGED <<tabs, grid>>
                 /\ result' = Raised

NextPrune ==
  \/ \E sel \in RequestedTitles : PruneCall(sel)
  \/ PruneBatchUpdate

SpecPrune == Init /\ [][NextPrune]_vars

(***************************************************************************)
(* SheetCustomizer.customize_sheet_with_goals: its inputs.                 *)
(***************************************************************************)
\* the text of the goal at position i of a goals argument: one letter per position,
\* with leading or trailing whitespace or an inner line break
GoalText(i) ==
  LET c == LowerChars[((i - 1) % Len(LowerChars)) + 1] IN
  CASE i % 4 = 1 -> <<c>>
    [] i % 4 = 2 -> <<" ", c>>
    [] i % 4 = 3 -> <<c, "\n", c>>
    [] OTHER     -> <<c, " ">>

\* a goal that strip() empties
BlankGoal(i) == IF i % 2 = 1 THEN <<" ">> ELSE << >>

\* the goals arguments considered: up to MaxGoals entries, at most one of them blank,
\* the second or the last
GoalLists ==
  UNION {
    {[i \in 1..n |-> IF i = b THEN BlankGoal(i) ELSE GoalText(i)] : b \in {0, 2, n} \cap (0..n)}
    : n \in 0..MaxGoals}

(***************************************************************************)
(* SheetCustomizer.customize_sheet_with_goals: its helpers.                *)
(***************************************************************************)
RECURSIVE FilterGoals(_)
\* [g.strip() for g in goals if g.strip()]
FilterGoals(gs) ==
  IF gs = << >> THEN << >>
  ELSE (IF Strip(Head(gs)) /= << >> THEN <<Strip(Head(gs))>> ELSE << >>)
       \o FilterGoals(Tail(gs))

RECURSIVE _get_tab_id(_, _)
\* the sheetId of the first tab titled tab, as <<id>>, or << >> for None
_get_tab_id(sheets, tab) ==
  IF sheets = << >> THEN << >>
  ELSE IF Head(sheets).title = tab THEN <<Head(sheets).sheetId>>
  ELSE _get_tab_id(Tail(sheets), tab)

\* the bracketed token of a title: from its first "[" to its first "]", or ""
_extract_platform_token(tab_title) ==
  IF tab_title = << >> THEN << >>
  ELSE LET start == Find(tab_title, "[")
           end   == Find(tab_title, "]")
       IN  IF start /= -1 /\ end /= -1 /\ end > start
             THEN SubSeq(tab_title, start + 1, end + 1)
             ELSE << >>

RECURSIVE _find_platform_tab_by_token_cased(_, _)
\* a bug: the token is compared case-sensitively
_find_platform_tab_by_token_cased(sheets, token) ==
  IF sheets = << >> THEN << >>
  ELSE IF token /= << >> /\ Contains(Head(sheets).title, token)
    THEN <<Head(sheets)>>
  ELSE _find_platform_tab_by_token_cased(Tail(sheets), token)

\* a bug: without a match the first tab is taken
_find_platform_tab_by_token_any(sheets, token) ==
  IF sheets = << >> THEN << >> ELSE <<Head(sheets)>>

RECURSIVE _find_platform_tab_by_token(_, _)
\* the first tab whose title contains the token case-insensitively, as <<tab>>, or << >>
_find_platform_tab_by_token(sheets, token) ==
  IF sheets = << >> THEN << >>
  ELSE IF token /= << >> /\ Contains(Lower(Head(sheets).title), Lower(token))
    THEN <<Head(sheets)>>
  ELSE _find_platform_tab_by_token(Tail(sheets), token)

KeyMonetate   == <<"[","m","o","n","e","t","a","t","e","]">>
KeyVWO        == <<"[","v","w","o","]">>
KeyConvert    == <<"[","c","o","n","v","e","r","t","]">>
KeyOptimizely == <<"[","o","p","t","i","m","i","z","e","l","y","]">>

StartRowMonetate   == 23
StartRowVWO        == 26
StartRowConvert    == 27
StartRowOptimizely == 28
StartRowDefault    == 28

\* start_row_by_platform.get(platform_token, 28)
start_row_by_platform(platform_token) ==
  CASE platform_token = KeyMonetate   -> StartRowMonetate
    [] platform_token = KeyVWO        -> StartRowVWO
    [] platform_token = KeyConvert    -> StartRowConvert
    [] platform_token = KeyOptimizely -> StartRowOptimizely
    [] OTHER                          -> StartRowDefault

\* the start row of the tab with this (resolved) title
\* a bug: the token is looked up as written, without lower()
StartRowOf_cased(title) == start_row_by_platform(_extract_platform_token(title))

StartRowOf(title) == start_row_by_platform(Lower(_extract_platform_token(title)))

placeholder_capacity == 3

\* a bug: one row too few is inserted
RowsToInsert_short(num_goals) ==
  IF num_goals - placeholder_capacity - 1 > 0 THEN num_goals - placeholder_capacity - 1 ELSE 0

\* a bug: a row is inserted for every goal, the placeholders are not reused
RowsToInsert_every(num_goals) == num_goals

\* max(0, num_goals - placeholder_capacity)
RowsToInsert(num_goals) ==
  IF num_goals - placeholder_capacity > 0 THEN num_goals - placeholder_capacity ELSE 0

CopyStartColumn == 2
CopyEndColumn   == 12

\* a bug: the rows are inserted one row too low
InsertRequest_low(id, start, n) ==
  [op |-> "insertDimension", sheetId |-> id, dimension |-> "ROWS",
   startIndex |-> start + placeholder_capacity,
   endIndex   |-> start + placeholder_capacity + n]

\* the insertDimension request
InsertRequest(id, start, n) ==
  [op |-> "insertDimension", sheetId |-> id, dimension |-> "ROWS",
   startIndex |-> (start - 1) + placeholder_capacity,
   endIndex   |-> (start - 1) + placeholder_capacity + n]

\* a bug: the column span is 3 .. 11
copy_source_narrow(id, start) ==
  [sheetId |-> id, startRowIndex |-> start - 1, endRowIndex |-> start,
   startColumnIndex |-> CopyStartColumn + 1, endColumnIndex |-> CopyEndColumn - 1]

copy_source(id, start) ==
  [sheetId |-> id, startRowIndex |-> start - 1, endRowIndex |-> start,
   startColumnIndex |-> CopyStartColumn, endColumnIndex |-> CopyEndColumn]

\* a bug: the destination ends one row too far
copy_destination_long(id, start, num_goals) ==
  [sheetId |-> id, startRowIndex |-> start - 1, endRowIndex |-> start + num_goals,
   startColumnIndex |-> CopyStartColumn, endColumnIndex |-> CopyEndColumn]

copy_destination(id, start, num_goals) ==
  [sheetId |-> id, startRowIndex |-> start - 1, endRowIndex |-> start - 1 + num_goals,
   startColumnIndex |-> CopyStartColumn, endColumnIndex |-> CopyEndColumn]

CopyPaste(id, start, num_goals, type) ==
  [op |-> "copyPaste", source |-> copy_source(id, start),
   destination |-> copy_destination(id, start, num_goals),
   pasteType |-> type, pasteOrientation |-> "NORMAL"]

\* a bug: the formulas are pasted by a request of their own, not with the other kinds
copy_requests_partial(id, start, num_goals) ==
  << CopyPaste(id, start, num_goals, "PASTE_FORMAT"),
     CopyPaste(id, start, num_goals, "PASTE_DATA_VALIDATION"),
     CopyPaste(id, start, num_goals, "PASTE_CONDITIONAL_FORMATTING") >>

\* copy_requests: the four paste kinds, in the order of the code
copy_requests(id, start, num_goals) ==
  << CopyPaste(id, start, num_goals, "PASTE_FORMAT"),
     CopyPaste(id, start, num_goals, "PASTE_DATA_VALIDATION"),
     CopyPaste(id, start, num_goals, "PASTE_CONDITIONAL_FORMATTING"),
     CopyPaste(id, start, num_goals, "PASTE_FORMULA") >>

\* range_name, the A1 range 'tab'!B<start>:B<start + num_goals - 1>, by its parts
range_name(tab, start, num_goals) ==
  [sheet |-> tab, col1 |-> "B", row1 |-> start,
   col2 |-> "B", row2 |-> start + num_goals - 1]

\* a bug: the goals are written last first
values_reversed(gs) == [i \in 1..Len(gs) |-> <<gs[Len(gs) + 1 - i]>>]

\* values: one row, of one cell, per goal
values(gs) == [i \in 1..Len(gs) |-> <<gs[i]>>]

\* a bug: the number of goals is returned
CustomizeReturn_goals(rows, num_goals) == Return(num_goals)

\* return rows_to_insert
CustomizeReturn(rows, num_goals) == Return(rows)

ValuesUpdate(rng, vals, ok) ==
  [kind |-> "valuesUpdate", range |-> rng, valueInputOption |-> "RAW",
   values |-> vals, ok |-> ok]

(***************************************************************************)
(* The spreadsheet backend: rows.                                          *)
(***************************************************************************)
\* insertDimension, ROWS: blank rows at the 0-based rows startIndex .. endIndex - 1
ApplyInsert(rows, req) ==
  SubSeq(rows, 1, req.startIndex)
  \o [i \in 1..(req.endIndex - req.startIndex) |-> BlankRow]
  \o SubSeq(rows, req.startIndex + 1, Len(rows))

\* copyPaste of one paste kind: every destination row takes what the source rows carry,
\* the source repeated to fill the destination
ApplyCopyPaste(rows, req) ==
  LET src    == req.source
      dst    == req.destination
      height == src.endRowIndex - src.startRowIndex
  IN  [r \in 1..Len(rows) |->
         IF (r - 1) \in dst.startRowIndex..(dst.endRowIndex - 1)
           THEN LET from == src.startRowIndex + 1 + ((r - 1 - dst.startRowIndex) % height)
                IN  [rows[r] EXCEPT !.attr[req.pasteType] = rows[from].attr[req.pasteType]]
           ELSE rows[r]]

RECURSIVE ApplyCopyRequests(_, _)
\* the copyPaste requests of one batch, applied in order
ApplyCopyRequests(rows, requests) ==
  IF requests = << >> THEN rows
  ELSE ApplyCopyRequests(ApplyCopyPaste(rows, Head(requests)), Tail(requests))

\* values.update of a one-column range: values[k] goes to row row1 + k - 1 of column col1
ApplyValues(rows, rng, vals) ==
  [r \in 1..Len(rows) |->
     IF r \in rng.row1..rng.row2 /\ (r - rng.row1 + 1) \in 1..Len(vals)
       THEN [rows[r] EXCEPT !.cells = (rng.col1 :> vals[r - rng.row1 + 1][1]) @@ @]
       ELSE rows[r]]

\* the grid with the rows of tab id replaced
SetRows(g, id, rows) == (id :> rows) @@ g

(***************************************************************************)
(* SheetCustomizer.customize_sheet_with_goals                              *)
(***************************************************************************)
\* not the code: rows are inserted by the first call only
FirstRequest_once(rows) == IF rows > 0 /\ ~repeat' THEN "insert" ELSE "copy"

\* if rows_to_insert > 0: the insert is the first mutating request, else the copy
FirstRequest(rows) == IF rows > 0 THEN "insert" ELSE "copy"

\* the plan once the tab is resolved to title and id: start_row, rows_to_insert and the
\* first mutating request
Planned(title, id, gs) ==
  /\ tab_name' = title
  /\ tab_id' = <<id>>
  /\ start_row' = StartRowOf(title)
  /\ rows_to_insert' = RowsToInsert(Len(gs))
  /\ result' = NoResult
  /\ pc' = FirstRequest(rows_to_insert')

\* a bug: only the second test is made, an empty list falls through
NoGoals_filtered_only(gs, filtered) == gs /= << >> /\ filtered = << >>

\* not goals, before or after the filter: the two early returns
NoGoals(gs, filtered) == gs = << >> \/ filtered = << >>

\* a call up to its first metadata fetch: the early returns, the filter, _get_tab_id
CustomizeBegin(tab, gs) ==
  /\ pc = "idle"
  /\ UNCHANGED jiraVars
  /\ UNCHANGED error_log
  /\ ncalls' = ncalls + 1
  /\ args' = [tab_name |-> tab, goals |-> gs]
  /\ tabs0' = tabs
  /\ grid0' = grid
  /\ UNCHANGED <<tabs, grid, prevDeleted>>
  /\ UNCHANGED pruneLocals
  /\ LET filtered == FilterGoals(gs) IN
     IF NoGoals(gs, filtered)
       THEN \* return 0 before any request
            /\ goals' = filtered
            /\ tab_name' = tab
            /\ tab_id' = << >>
            /\ UNCHANGED <<start_row, rows_to_insert>>
            /\ reqs' = << >>
            /\ result' = Return(0)
            /\ pc' = "idle"
       ELSE /\ goals' = filtered
            /\ \E ok \in BOOLEAN :
                 /\ reqs' = <<GetRequest(ok)>>
                 /\ IF ~ok
                      THEN \* _get_tab_id re-raises HttpError
                           /\ tab_name' = tab
                           /\ tab_id' = << >>
                           /\ UNCHANGED <<start_row, rows_to_insert>>
                           /\ result' = Raised
                           /\ pc' = "idle"
                    ELSE IF _get_tab_id(tabs, tab) /= << >>
                      THEN Planned(tab, _get_tab_id(tabs, tab)[1], filtered)
                    ELSE /\ tab_name' = tab
                         /\ tab_id' = << >>
                         /\ UNCHANGED <<start_row, rows_to_insert>>
                         /\ result' = NoResult
                         /\ pc' = IF _extract_platform_token(tab) /= << >>
                                    THEN "find_by_token" ELSE "list_titles"

\* the first call on the spreadsheet
CustomizeCall(tab, gs) ==
  /\ ncalls = 0
  /\ UNCHANGED repeat
  /\ CustomizeBegin(tab, gs)

\* the ticket is processed again: a second call, with the arguments of the first
CustomizeRepeat ==
  /\ ncalls = 1
  /\ result /= NoResult
  /\ repeat' = TRUE
  /\ CustomizeBegin(args.tab_name, args.goals)

\* _find_platform_tab_by_token: a second metadata fetch
CustomizeFindByToken ==
  /\ pc = "find_by_token"
  /\ UNCHANGED jiraVars
  /\ UNCHANGED error_log
  /\ UNCHANGED <<tabs, grid, goals, args, tabs0, grid0, repeat, prevDeleted, ncalls>>
  /\ UNCHANGED pruneLocals
  /\ \E ok \in BOOLEAN :
       LET found == _find_platform_tab_by_token(tabs, _extract_platform_token(tab_name)) IN
       /\ reqs' = Append(reqs, GetRequest(ok))
       /\ IF ~ok
            THEN /\ UNCHANGED <<tab_name, tab_id, start_row, rows_to_insert>>
                 /\ result' = Raised
                 /\ pc' = "idle"
          ELSE IF found /= << >>
            THEN Planned(found[1].title, found[1].sheetId, goals)
          ELSE /\ UNCHANGED <<tab_name, tab_id, start_row, rows_to_insert, result>>
               /\ pc' = "list_titles"

\* [s title for s in sheets]
_list_tab_titles(sheets) == Titles(sheets)

\* a bug: the titles are not looked up
NotFoundLog_bare(tab, available_titles) ==
  [text |-> "Tab '{tab_name}' not found in sheet; available tabs: {available_titles}",
   tab_name |-> tab, available_titles |-> << >>]

\* the logger.error record of the tab-not-found branch: the f-string and its values
NotFoundLog(tab, available_titles) ==
  [text |-> "Tab '{tab_name}' not found in sheet; available tabs: {available_titles}",
   tab_name |-> tab, available_titles |-> available_titles]

\* raise Exception(f"Tab '{tab_name}' not found in sheet"): the f-string and its value
NotFoundRaised(tab) ==
  [kind |-> "raise", val |-> 0,
   message |-> [text |-> "Tab '{tab_name}' not found in sheet", tab_name |-> tab]]

\* the tab is not found: _list_tab_titles, the error record, then raise
CustomizeListTitles ==
  /\ pc = "list_titles"
  /\ UNCHANGED jiraVars
  /\ UNCHANGED <<tabs, grid, args, tabs0, grid0, repeat, prevDeleted, ncalls>>
  /\ UNCHANGED customizeLocals
  /\ UNCHANGED pruneLocals
  /\ \E ok \in BOOLEAN :
       /\ reqs' = Append(reqs, GetRequest(ok))
       /\ IF ok
            THEN /\ error_log' = Append(error_log, NotFoundLog(tab_name, _list_tab_titles(tabs)))
                 /\ result' = NotFoundRaised(tab_name)
            ELSE \* HttpError from _list_tab_titles
                 /\ UNCHANGED error_log
                 /\ result' = Raised
  /\ pc' = "idle"

\* a bug: the goals are written right after the insert, the copy is skipped
AfterInsert_write == "write"

\* the request that follows the insert: the copy
AfterInsert == "copy"

\* the batchUpdate that inserts the rows beyond the placeholders
CustomizeInsert ==
  /\ pc = "insert"
  /\ UNCHANGED jiraVars
  /\ UNCHANGED error_log
  /\ UNCHANGED <<tabs, args, tabs0, grid0, repeat, prevDeleted, ncalls>>
  /\ UNCHANGED customizeLocals
  /\ UNCHANGED pruneLocals
  /\ LET req == InsertRequest(tab_id[1], start_row, rows_to_insert) IN
     \E ok \in BOOLEAN :
       /\ reqs' = Append(reqs, BatchUpdate(<<req>>, ok))
       /\ IF ok
            THEN /\ req.sheetId \in IdSet(tabs)
                 /\ req.startIndex <= Len(Rows(grid, req.sheetId))
                 /\ grid' = SetRows(grid, req.sheetId, ApplyInsert(Rows(grid, req.sheetId), req))
                 /\ result' = NoResult
                 /\ pc' = AfterInsert
            ELSE /\ UNCHANGED grid
                 /\ result' = Raised
                 /\ pc' = "idle"

\* the one batchUpdate that copies the template row's four paste kinds
CustomizeCopy ==
  /\ pc = "copy"
  /\ UNCHANGED jiraVars
  /\ UNCHANGED error_log
  /\ UNCHANGED <<tabs, args, tabs0, grid0, repeat, prevDeleted, ncalls>>
  /\ UNCHANGED customizeLocals
  /\ UNCHANGED pruneLocals
  /\ LET requests == copy_requests(tab_id[1], start_row, Len(goals))
         id == requests[1].destination.sheetId
     IN
     \E ok \in BOOLEAN :
       /\ reqs' = Append(reqs, BatchUpdate(requests, ok))
       /\ IF ok
            THEN /\ id \in IdSet(tabs)
                 /\ requests[1].destination.endRowIndex <= Len(Rows(grid, id))
                 /\ grid' = SetRows(grid, id, ApplyCopyRequests(Rows(grid, id), requests))
                 /\ result' = NoResult
                 /\ pc' = "write"
            ELSE /\ UNCHANGED grid
                 /\ result' = Raised
                 /\ pc' = "idle"

\* values().update of the goals, then return rows_to_insert
CustomizeWrite ==
  /\ pc = "write"
  /\ UNCHANGED jiraVars
  /\ UNCHANGED error_log
  /\ UNCHANGED <<tabs, args, tabs0, grid0, repeat, prevDeleted, ncalls>>
  /\ UNCHANGED customizeLocals
  /\ UNCHANGED pruneLocals
  /\ LET rng  == range_name(tab_name, start_row, Len(goals))
         vals == values(goals)
         id   == _get_tab_id(tabs, rng.sheet)
     IN
     \E ok \in BOOLEAN :
       /\ reqs' = Append(reqs, ValuesUpdate(rng, vals, ok))
       /\ IF ok
            THEN /\ id /= << >>
                 /\ rng.row2 <= Len(Rows(grid, id[1]))
                 /\ grid' = SetRows(grid, id[1], ApplyValues(Rows(grid, id[1]), rng, vals))
                 /\ result' = CustomizeReturn(rows_to_insert, Len(goals))
                 /\ pc' = "idle"
            ELSE /\ UNCHANGED grid
                 /\ result' = Raised
                 /\ pc' = "idle"

NextCustomize ==
  \/ \E tab \in RequestedTabNames, gs \in GoalLists : CustomizeCall(tab, gs)
  \/ CustomizeFindByToken
  \/ CustomizeListTitles
  \/ CustomizeInsert
  \/ CustomizeCopy
  \/ CustomizeWrite

SpecCustomize == InitCustomize /\ [][NextCustomize]_vars

\* a spreadsheet on which the same ticket is processed up to twice
NextReprocess ==
  \/ NextCustomize
  \/ CustomizeRepeat

SpecReprocess == InitCustomize /\ [][NextReprocess]_vars

(***************************************************************************)
(* Python values, as JiraClient's extractor meets them in an ADF document. *)
(***************************************************************************)
PyNone == [t |-> "None"]
PyStr(s) == [t |-> "str", s |-> s]
PyInt(n) == [t |-> "int", n |-> n]
PyList(items) == [t |-> "list", items |-> items]
\* a dict, by its keys; the keys iterate and print in the order of KeyOrder
PyDict(d) == [t |-> "dict", d |-> d]
EmptyStr == PyStr(<< >>)

KeyOrder == <<"type", "attrs", "level", "content", "text">>

KeyChars ==
  [k \in {"type", "attrs", "level", "content", "text"} |->
     CASE k = "type"    -> <<"t","y","p","e">>
       [] k = "attrs"   -> <<"a","t","t","r","s">>
       [] k = "level"   -> <<"l","e","v","e","l">>
       [] k = "content" -> <<"c","o","n","t","e","n","t">>
       [] k = "text"    -> <<"t","e","x","t">>]

\* how an evaluation ends: with a value, or with an exception raised
Ok(v) == [raised |-> FALSE, v |-> v]
Raises == [raised |-> TRUE, v |-> PyNone]

\* bool(v)
Truthy(v) ==
  CASE v.t = "None" -> FALSE
    [] v.t = "str"  -> v.s /= << >>
    [] v.t = "int"  -> v.n /= 0
    [] v.t = "list" -> v.items /= << >>
    [] v.t = "dict" -> DOMAIN v.d /= {}

\* isinstance(v, dict)
IsDict(v) == v.t = "dict"

\* v.get(key, default): AttributeError unless v is a dict
DictGet(v, key, default) ==
  IF ~IsDict(v) THEN Raises
  ELSE IF key \in DOMAIN v.d THEN Ok(v.d[key]) ELSE Ok(default)

\* the keys of a dict, in order
KeysOf(v) == SelectSeq(KeyOrder, LAMBDA k : k \in DOMAIN v.d)

\* for x in v: the elements, or TypeError when v is not iterable
Iter(v) ==
  CASE v.t = "list" -> Ok(PyList(v.items))
    [] v.t = "str"  -> Ok(PyList([i \in 1..Len(v.s) |-> PyStr(<<v.s[i]>>)]))
    [] v.t = "dict" -> Ok(PyList([i \in 1..Len(KeysOf(v)) |-> PyStr(KeyChars[KeysOf(v)[i]])]))
    [] OTHER        -> Raises

RECURSIVE Concat(_, _)
\* the strings of strs with sep between them
Concat(sep, strs) ==
  IF strs = << >> THEN << >>
  ELSE IF Len(strs) = 1 THEN strs[1]
  ELSE strs[1] \o sep \o Concat(sep, Tail(strs))

\* sep.join(parts): TypeError when a part is not a str
Join(sep, parts) ==
  IF \E i \in 1..Len(parts) : parts[i].t /= "str" THEN Raises
  ELSE Ok(PyStr(Concat(sep, [i \in 1..Len(parts) |-> parts[i].s])))

DigitChars == <<"0","1","2","3","4","5","6","7","8","9">>

RECURSIVE Digits(_)
\* the decimal digits of n >= 0
Digits(n) ==
  IF n < 10 THEN <<DigitChars[n + 1]>>
  ELSE Digits(n \div 10) \o <<DigitChars[(n % 10) + 1]>>

RECURSIVE Repr(_)
\* repr(v)
Repr(v) ==
  CASE v.t = "None" -> <<"N","o","n","e">>
    [] v.t = "int"  -> IF v.n < 0 THEN <<"-">> \o Digits(0 - v.n) ELSE Digits(v.n)
    [] v.t = "str"  ->
         <<"'">>
         \o Concat(<< >>, [i \in 1..Len(v.s) |->
                             IF v.s[i] = "\n" THEN <<"\\", "n">> ELSE <<v.s[i]>>])
         \o <<"'">>
    [] v.t = "list" ->
         <<"[">> \o Concat(<<",", " ">>, [i \in 1..Len(v.items) |-> Repr(v.items[i])])
         \o <<"]">>
    [] v.t = "dict" ->
         <<"{">>
         \o Concat(<<",", " ">>,
                   [i \in 1..Len(KeysOf(v)) |->
                      <<"'">> \o KeyChars[KeysOf(v)[i]] \o <<"'", ":", " ">>
                      \o Repr(v.d[KeysOf(v)[i]])])
         \o <<"}">>

\* str(v), which is also how an f-string prints v
Str(v) == IF v.t = "str" THEN v.s ELSE Repr(v)

\* text or ''
OrEmpty(v) == IF Truthy(v) THEN v ELSE EmptyStr

\* '#' * level: TypeError unless level is an int
Hashes(level) ==
  IF level.t /= "int" THEN Raises
  ELSE Ok(PyStr([i \in 1..level.n |-> "#"]))

(***************************************************************************)
(* JiraClient._extract_text_from_adf_node and _convert_adf_to_text         *)
(***************************************************************************)
ParagraphT   == <<"p","a","r","a","g","r","a","p","h">>
TextT        == <<"t","e","x","t">>
HeadingT     == <<"h","e","a","d","i","n","g">>
BulletListT  == <<"b","u","l","l","e","t","L","i","s","t">>
OrderedListT == <<"o","r","d","e","r","e","d","L","i","s","t">>
ListItemT    == <<"l","i","s","t","I","t","e","m">>
HardBreakT   == <<"h","a","r","d","B","r","e","a","k">>
DocT         == <<"d","o","c">>
PanelT       == <<"p","a","n","e","l">>

RECURSIVE Flatten(_)
\* the elements of the sequences of ss, in order
Flatten(ss) == IF ss = << >> THEN << >> ELSE Head(ss) \o Flatten(Tail(ss))

RECURSIVE _extract_text_from_adf_node(_)
RECURSIVE ExtractNodeTry(_)

\* ''.join(self._extract_text_from_adf_node(child, depth) for child in content)
JoinExtracted(content) ==
  LET it == Iter(content) IN
  IF it.raised THEN Raises
  ELSE LET rs == [i \in 1..Len(it.v.items) |-> _extract_text_from_adf_node(it.v.items[i])] IN
       IF \E i \in 1..Len(rs) : rs[i].raised THEN Raises
       ELSE Join(<< >>, [i \in 1..Len(rs) |-> rs[i].v])

\* the body of the loop over a list's items: the lines the item adds to items
ItemLines(item, prefix) ==
  LET item_content == DictGet(item, "content", PyList(<< >>)) IN
  IF item_content.raised THEN Raises
  ELSE LET item_text == JoinExtracted(item_content.v) IN
       IF item_text.raised THEN Raises
       ELSE IF Truthy(item_text.v)
         THEN Ok(PyList(<<PyStr(prefix \o item_text.v.s)>>))
         ELSE Ok(PyList(<< >>))

\* a bug: enumerate(content) without start=1
ItemPrefix_zero(ordered, index) ==
  IF ordered THEN Digits(index - 1) \o <<".", " ">> ELSE <<"-", " ">>

\* what precedes the item's text: f"{index}. " in an orderedList, "- " in a bulletList
ItemPrefix(ordered, index) ==
  IF ordered THEN Digits(index) \o <<".", " ">> ELSE <<"-", " ">>

\* the bulletList and orderedList branches: '\n'.join(items)
ListText(content, ordered) ==
  LET it == Iter(content) IN
  IF it.raised THEN Raises
  ELSE LET ls == [i \in 1..Len(it.v.items) |->
                    ItemLines(it.v.items[i], ItemPrefix(ordered, i))]
       IN  IF \E i \in 1..Len(ls) : ls[i].raised THEN Raises
           ELSE Join(<<"\n">>, Flatten([i \in 1..Len(ls) |-> ls[i].v.items]))

\* the content's text if there is content, else text or ''
ContentOrText(content, text) ==
  IF Truthy(content) THEN JoinExtracted(content) ELSE Ok(OrEmpty(text))

\* the heading branch
HeadingText(node, content, text) ==
  LET attrs == DictGet(node, "attrs", PyDict(<< >>))
      level == DictGet(attrs.v, "level", PyInt(1))
  IN  IF level.raised THEN Raises
      ELSE LET heading_text == ContentOrText(content, text)
               hashes == Hashes(level.v)
           IN  IF heading_text.raised \/ hashes.raised THEN Raises
               ELSE Ok(PyStr(hashes.v.s \o <<" ">> \o Str(heading_text.v)))

\* the try block of _extract_text_from_adf_node
ExtractNodeTry(node) ==
  IF ~IsDict(node) THEN Ok(EmptyStr)
  ELSE LET node_type == DictGet(node, "type", EmptyStr).v
           content   == DictGet(node, "content", PyList(<< >>)).v
           text      == DictGet(node, "text", EmptyStr).v
       IN  CASE node_type = PyStr(ParagraphT)   -> ContentOrText(content, text)
             [] node_type = PyStr(TextT)        -> Ok(OrEmpty(text))
             [] node_type = PyStr(HeadingT)     -> HeadingText(node, content, text)
             [] node_type = PyStr(BulletListT)  -> ListText(content, FALSE)
             [] node_type = PyStr(OrderedListT) -> ListText(content, TRUE)
             [] node_type = PyStr(ListItemT)    -> JoinExtracted(content)
             [] node_type = PyStr(HardBreakT)   -> Ok(PyStr(<<"\n">>))
             [] OTHER                           -> ContentOrText(content, text)

\* _extract_text_from_adf_node: except Exception: return ''
_extract_text_from_adf_node(node) ==
  LET r == ExtractNodeTry(node) IN
  IF r.raised THEN Ok(EmptyStr) ELSE r

\* the try block of _convert_adf_to_text
ConvertTry(adf_document) ==
  IF ~IsDict(adf_document) THEN Ok(PyStr(Str(adf_document)))
  ELSE LET content == DictGet(adf_document, "content", PyList(<< >>)).v IN
       IF ~Truthy(content) THEN Ok(EmptyStr)
       ELSE LET it == Iter(content) IN
            IF it.raised THEN Raises
            ELSE LET rs == [i \in 1..Len(it.v.items) |->
                              _extract_text_from_adf_node(it.v.items[i])]
                 IN  IF \E i \in 1..Len(rs) : rs[i].raised THEN Raises
                     ELSE Join(<<"\n">>, SelectSeq([i \in 1..Len(rs) |-> rs[i].v], Truthy))

\* _convert_adf_to_text: except Exception: return str(adf_document)
_convert_adf_to_text(adf_document) ==
  LET r == ConvertTry(adf_document) IN
  IF r.raised THEN Ok(PyStr(Str(adf_document))) ELSE r

(***************************************************************************)
(* The documents and nodes the extractor is called with.                   *)
(***************************************************************************)
TextNode(t) == PyDict(("type" :> PyStr(TextT)) @@ ("text" :> t))
HardBreak == PyDict("type" :> PyStr(HardBreakT))
Node(type, content) == PyDict(("type" :> PyStr(type)) @@ ("content" :> content))
Paragraph(c) == Node(ParagraphT, PyList(c))
ListItem(c) == Node(ListItemT, PyList(c))
Heading(level, c) ==
  PyDict(("type" :> PyStr(HeadingT)) @@ ("attrs" :> PyDict("level" :> level))
         @@ ("content" :> PyList(c)))
Doc(c) == Node(DocT, PyList(c))

\* the sequences of elements of S of length up to n
SeqsUpTo(S, n) == UNION {[1..k -> S] : k \in 0..n}

TextA == TextNode(PyStr(<<"a">>))
TextEmpty == TextNode(EmptyStr)

Inlines == {TextA, TextEmpty, HardBreak}
Paragraphs == {Paragraph(c) : c \in SeqsUpTo(Inlines, MaxInline)}
Headings ==
  {Heading(PyInt(l), c) : l \in 1..MaxLevel, c \in {<< >>, <<TextA>>, <<TextEmpty>>}}
  \cup {Node(HeadingT, PyList(<<TextA>>))}
ListItems == {ListItem(<< >>), ListItem(<<Paragraph(<< >>)>>), ListItem(<<Paragraph(<<TextA>>)>>)}
Lists ==
  {Node(type, PyList(items)) :
     type \in {BulletListT, OrderedListT},
     items \in SeqsUpTo(ListItems \cup {TextA}, MaxItems)}

\* an ordered list of two items with text
OrderedAA ==
  Node(OrderedListT, PyList(<<ListItem(<<Paragraph(<<TextA>>)>>),
                              ListItem(<<Paragraph(<<TextA>>)>>)>>))

\* lists whose second item holds, after its paragraph, a list of its own
NestedLists ==
  {Node(type, PyList(<<ListItem(<<Paragraph(<<TextA>>)>>),
                       ListItem(<<Paragraph(<<TextA>>), inner>>)>>)) :
     type \in {BulletListT, OrderedListT},
     inner \in {OrderedAA, Node(BulletListT, PyList(<<ListItem(<<Paragraph(<<TextA>>)>>)>>))}}

\* the nodes built from the recognized types only
RecognizedNodes ==
  Inlines \cup Paragraphs \cup Headings \cup ListItems \cup Lists \cup NestedLists

\* the blocks the documents of several blocks are made of
JoinBlocks ==
  {Paragraph(<<TextA>>), Paragraph(<< >>), Heading(PyInt(1), << >>),
   Node(BulletListT, PyList(<<ListItem(<<Paragraph(<<TextA>>)>>)>>)), OrderedAA}

\* the documents built from the recognized types only
RecognizedDocs ==
  {Doc(<<b>>) : b \in RecognizedNodes} \cup {Doc(c) : c \in SeqsUpTo(JoinBlocks, MaxBlocks)}

\* values that are not dicts
NonDicts ==
  {PyNone, EmptyStr, PyStr(<<"a">>), PyInt(0), PyInt(5), PyList(<< >>), PyList(<<TextA>>)}

\* nodes with missing or wrongly typed fields, or with children that are not dicts
MalformedNodes ==
  {PyDict(<< >>),
   PyDict("type" :> PyInt(5)),
   TextNode(PyInt(5)), TextNode(PyNone), TextNode(PyList(<<PyInt(1)>>)),
   PyDict(("type" :> PyStr(ParagraphT)) @@ ("text" :> PyInt(5))),
   Node(ParagraphT, PyNone), Node(ParagraphT, PyInt(5)), Node(ParagraphT, PyStr(<<"a","b">>)),
   Paragraph(<<PyInt(5), PyNone, TextA>>), Paragraph(<<TextNode(PyInt(5))>>),
   Heading(PyStr(<<"x">>), <<TextA>>), Heading(PyNone, <<TextA>>),
   Heading(PyInt(0), <<TextA>>), Heading(PyInt(0 - 1), << >>),
   PyDict(("type" :> PyStr(HeadingT)) @@ ("attrs" :> PyNone)),
   PyDict(("type" :> PyStr(HeadingT)) @@ ("text" :> PyInt(5))),
   Node(BulletListT, PyList(<<PyInt(5)>>)), Node(BulletListT, PyNone),
   Node(OrderedListT, PyList(<<Node(ListItemT, PyNone)>>)),
   Node(OrderedListT, PyList(<<ListItem(<<TextNode(PyInt(5))>>)>>)),
   Node(ListItemT, PyNone), Node(ListItemT, PyInt(5)),
   Node(PanelT, PyList(<<Paragraph(<<TextA>>)>>)),
   PyDict(("type" :> PyStr(PanelT)) @@ ("text" :> PyStr(<<"a">>)))}

MalformedDocs ==
  {Doc(<<n>>) : n \in MalformedNodes \cup NonDicts}
  \cup {Node(DocT, PyNone), Node(DocT, PyInt(5)), Node(DocT, PyStr(<<"a","b">>)),
        PyDict("type" :> PyStr(DocT))}

AdfInputs == RecognizedDocs \cup RecognizedNodes \cup NonDicts \cup MalformedNodes \cup MalformedDocs

InitAdf ==
  /\ SheetInit({<< >>})
  /\ SegmentIdle
  /\ PlatformIdle
  /\ AppIdle
  /\ adf_input \in AdfInputs
  /\ adf_fn = "none"
  /\ adf_result = << >>

\* a call of _convert_adf_to_text
ConvertAdfCall ==
  /\ adf_fn = "none"
  /\ adf_fn' = "_convert_adf_to_text"
  /\ adf_result' = _convert_adf_to_text(adf_input)
  /\ UNCHANGED adf_input
  /\ UNCHANGED <<segVars, platVars, appVars>>
  /\ UNCHANGED sheetVars

\* a call of _extract_text_from_adf_node
ExtractNodeCall ==
  /\ adf_fn = "none"
  /\ adf_fn' = "_extract_text_from_adf_node"
  /\ adf_result' = _extract_text_from_adf_node(adf_input)
  /\ UNCHANGED adf_input
  /\ UNCHANGED <<segVars, platVars, appVars>>
  /\ UNCHANGED sheetVars

NextAdf == ConvertAdfCall \/ ExtractNodeCall

SpecAdf == InitAdf /\ [][NextAdf]_vars

(***************************************************************************)
(* JiraTicketParser.parse_goals_field: the segmentation of the goals text. *)
(* app.py calls it; its code is not among the source files, so it is       *)
(* written from section 4.2 of the specification.                          *)
(***************************************************************************)
DigitSet == {DigitChars[i] : i \in 1..Len(DigitChars)}

RECURSIVE DigitRun(_, _)
\* the number of digits of text from position i on
DigitRun(text, i) ==
  IF i <= Len(text) /\ text[i] \in DigitSet THEN 1 + DigitRun(text, i + 1) ELSE 0

\* the length of the marker "integer, period, whitespace" that starts at i, or 0
MarkerLen(text, i) ==
  LET n == DigitRun(text, i) IN
  IF n > 0 /\ i + n + 1 <= Len(text) /\ text[i + n] = "." /\ text[i + n + 1] \in Whitespace
    THEN n + 2 ELSE 0

RECURSIVE NextMarker(_, _)
\* the position of the first marker at or after i, or 0
NextMarker(text, i) ==
  IF i > Len(text) THEN 0
  ELSE IF MarkerLen(text, i) > 0 THEN i
  ELSE NextMarker(text, i + 1)

\* a bug: a goal that is empty after trimming is kept
KeepGoal_all(body) == <<body>>

\* goals that become empty after trimming are dropped
KeepGoal(body) == IF body /= << >> THEN <<body>> ELSE << >>

RECURSIVE SegmentFrom(_, _)
\* the goals of the marker at position m and of the markers after it: the body runs up
\* to the next marker or the end, loses its marker and is trimmed
SegmentFrom(text, m) ==
  IF m = 0 THEN << >>
  ELSE LET len  == MarkerLen(text, m)
           next == NextMarker(text, m + len)
           stop == IF next = 0 THEN Len(text) ELSE next - 1
       IN  KeepGoal(Strip(SubSeq(text, m + len, stop))) \o SegmentFrom(text, next)

\* segment(plainText)
segment(plainText) == SegmentFrom(plainText, NextMarker(plainText, 1))

\* the characters of the texts that are segmented
TextChars == {"1", ".", " ", "a"}

PlainTexts == SeqsUpTo(TextChars, MaxTextLen)

InitSegment ==
  /\ SheetInit({<< >>})
  /\ AdfIdle
  /\ PlatformIdle
  /\ AppIdle
  /\ plain_text \in PlainTexts
  /\ segmented = FALSE
  /\ goal_list = << >>

\* a call of the segmentation
SegmentCall ==
  /\ ~segmented
  /\ segmented' = TRUE
  /\ goal_list' = segment(plain_text)
  /\ UNCHANGED plain_text
  /\ UNCHANGED <<adfVars, platVars, appVars>>
  /\ UNCHANGED sheetVars

NextSegment == SegmentCall

SpecSegment == InitSegment /\ [][NextSegment]_vars

(***************************************************************************)
(* JiraTicketParser._extract_platform_from_labels (src/jira_parser.py).    *)
(***************************************************************************)
\* largest number of labels of a ticket
MaxLabels == 2

LowerSet == {LowerChars[i] : i \in 1..Len(LowerChars)}

\* the upper-case letter of every lower-case letter
UpperMap ==
  [c \in LowerSet |-> UpperChars[CHOOSE i \in 1..Len(LowerChars) : LowerChars[i] = c]]

\* a cased character
IsCased(c) == c \in UpperSet \cup LowerSet

\* str.title(): a cased character is upper-cased after an uncased one (or at the
\* start) and lower-cased after a cased one
Title(s) ==
  [i \in 1..Len(s) |->
     IF ~IsCased(s[i]) THEN s[i]
     ELSE IF i = 1 \/ ~IsCased(s[i - 1])
       THEN (IF s[i] \in LowerSet THEN UpperMap[s[i]] ELSE s[i])
       ELSE LowerChar(s[i])]

\* platform_keywords, in the order of the dict
platform_keywords ==
  << [platform |-> <<"w","e","b">>,
      keywords |-> << <<"w","e","b">>, <<"w","e","b","s","i","t","e">>,
                      <<"f","r","o","n","t","e","n","d">> >>],
     [platform |-> <<"m","o","b","i","l","e">>,
      keywords |-> << <<"m","o","b","i","l","e">>, <<"i","o","s">>,
                      <<"a","n","d","r","o","i","d">>, <<"a","p","p">> >>],
     [platform |-> <<"b","a","c","k","e","n","d">>,
      keywords |-> << <<"b","a","c","k","e","n","d">>, <<"a","p","i">>,
                      <<"s","e","r","v","e","r">> >>],
     [platform |-> <<"e","m","a","i","l">>,
      keywords |-> << <<"e","m","a","i","l">>, <<"m","a","i","l">> >>],
     [platform |-> <<"p","u","s","h">>,
      keywords |-> << <<"p","u","s","h">>,
                      <<"n","o","t","i","f","i","c","a","t","i","o","n">> >>],
     [platform |-> <<"s","m","s">>,
      keywords |-> << <<"s","m","s">>, <<"t","e","x","t">> >>] >>

\* a bug: the default is not the platform name "Web"
default_platform_lower == <<"w","e","b">>

\* the platform returned when no label has a keyword
default_platform == <<"W","e","b">>

\* label.lower()
label_lower(label) == LowerOf(label)

\* any(keyword in label_lower for keyword in keywords), for the k-th platform
AnyKeyword(label, k) ==
  \E j \in 1..Len(platform_keywords[k].keywords) :
    Contains(label_lower(label), platform_keywords[k].keywords[j])

\* the inner loop: the index of the first platform with a keyword in the label, or 0
PlatformOfLabel(label) ==
  IF \E k \in 1..Len(platform_keywords) : AnyKeyword(label, k)
    THEN CHOOSE k \in 1..Len(platform_keywords) :
           AnyKeyword(label, k) /\ \A h \in 1..(k - 1) : ~AnyKeyword(label, h)
    ELSE 0

\* a bug: the last label with a keyword decides
ReturningLabel_last(ls) ==
  IF \E i \in 1..Len(ls) : PlatformOfLabel(ls[i]) /= 0
    THEN CHOOSE i \in 1..Len(ls) :
           PlatformOfLabel(ls[i]) /= 0 /\ \A h \in (i + 1)..Len(ls) : PlatformOfLabel(ls[h]) = 0
    ELSE 0

\* the outer loop: the index of the label at which the function returns, or 0
ReturningLabel(ls) ==
  IF \E i \in 1..Len(ls) : PlatformOfLabel(ls[i]) /= 0
    THEN CHOOSE i \in 1..Len(ls) :
           PlatformOfLabel(ls[i]) /= 0 /\ \A h \in 1..(i - 1) : PlatformOfLabel(ls[h]) = 0
    ELSE 0

\* _extract_platform_from_labels(labels)
_extract_platform_from_labels(ls) ==
  LET i == ReturningLabel(ls) IN
  IF i /= 0
    THEN Title(platform_keywords[PlatformOfLabel(ls[i])].platform)
    ELSE default_platform

\* the labels of the tickets
LabelPool ==
  { <<"W","e","b">>,
    <<"i","O","S">>,
    <<"w","e","b","a","p","p">>,
    <<"c","o","n","t","e","x","t">>,
    <<"e","x","p","e","r","i","m","e","n","t">>,
    <<"c","t","a">>,
    <<"A","P","I">>,
    <<"E","m","a","i","l">>,
    <<"p","u","s","h">> }

\* the label lists of the first ticket
LabelLists == SeqsUpTo(LabelPool, MaxLabels)

\* the label lists of the tickets after it: no label, or one
LaterLabelLists == {<< >>} \cup {<<l>> : l \in LabelPool}

\* the tab lists of the spreadsheets that exist while platforms are extracted
PlatformTabLists == TabListsOf({1, 4}, MaxTabs)

InitPlatform ==
  /\ SheetInit(PlatformTabLists)
  /\ AdfIdle
  /\ SegmentIdle
  /\ PlatformIdle
  /\ AppIdle

\* a call of _extract_platform_from_labels
ExtractPlatformCall ==
  \E ls \in (IF platform = << >> THEN LabelLists ELSE LaterLabelLists) :
    /\ labels' = ls
    /\ platform' = _extract_platform_from_labels(ls)
    /\ prev_platform' = platform
    /\ empty_results' =
         IF ls = << >> THEN empty_results \cup {platform'} ELSE empty_results
    /\ UNCHANGED <<adfVars, segVars, appVars>>
    /\ UNCHANGED sheetVars

NextPlatform == ExtractPlatformCall

SpecPlatform == InitPlatform /\ [][NextPlatform]_vars

(***************************************************************************)
(* create_qa_test_plan and _qa_plan_already_exists (src/app.py), run       *)
(* against the comments of one issue.  A comment is modelled by its body.  *)
(***************************************************************************)
\* largest number of comments of the issue before the first run
MaxComments == 1
\* largest number of runs of create_qa_test_plan for the issue
MaxRuns == 2

\* "QA Test Plan has been created:"
CreatedPhrase ==
  <<"Q","A"," ","T","e","s","t"," ","P","l","a","n"," ","h","a","s"," ","b","e","e",
    "n"," ","c","r","e","a","t","e","d",":">>

\* the sheet_url of the sheet a run creates
SheetUrl ==
  <<"h","t","t","p","s",":","/","/","s","/","1">>

\* "Warning: No Goals field found in ticket. Sheet created without goals."
warning_message ==
  <<"W","a","r","n","i","n","g",":"," ","N","o"," ","G","o","a","l","s"," ","f","i",
    "e","l","d"," ","f","o","u","n","d"," ","i","n"," ","t","i","c","k","e","t",".",
    " ","S","h","e","e","t"," ","c","r","e","a","t","e","d"," ","w","i","t","h","o",
    "u","t"," ","g","o","a","l","s",".">>

\* "QA Test Plan automation failed: " after its cross mark, before str(e)
error_message ==
  <<"Q","A"," ","T","e","s","t"," ","P","l","a","n"," ","a","u","t","o","m","a","t",
    "i","o","n"," ","f","a","i","l","e","d",":"," ">>

\* the body add_comment posts: a document of one paragraph of one text node
CommentBody(comment_text) == Doc(<<Paragraph(<<TextNode(PyStr(comment_text))>>)>>)

\* the body post_qa_plan_comment posts
QaPlanComment(sheet_url) == CommentBody(CreatedPhrase \o <<" ">> \o sheet_url)

\* the text parts one item of the content adds: the texts of the text nodes of a
\* paragraph
ItemTextParts(item) ==
  LET type == DictGet(item, "type", PyNone) IN
  IF type.raised THEN Raises
  ELSE IF type.v /= PyStr(ParagraphT) THEN Ok(PyList(<< >>))
  ELSE LET it == Iter(DictGet(item, "content", PyList(<< >>)).v) IN
       IF it.raised THEN Raises
       ELSE IF \E i \in 1..Len(it.v.items) : ~IsDict(it.v.items[i]) THEN Raises
       ELSE Ok(PyList(Flatten(
              [i \in 1..Len(it.v.items) |->
                 IF DictGet(it.v.items[i], "type", PyNone).v = PyStr(TextT)
                   THEN <<DictGet(it.v.items[i], "text", EmptyStr).v>>
                   ELSE << >>])))

\* _extract_text_from_jira_body(body)
_extract_text_from_jira_body(body) ==
  IF ~IsDict(body) THEN Ok(PyStr(Str(body)))
  ELSE LET it == Iter(DictGet(body, "content", PyList(<< >>)).v) IN
       IF it.raised THEN Raises
       ELSE LET parts == [i \in 1..Len(it.v.items) |-> ItemTextParts(it.v.items[i])] IN
            IF \E i \in 1..Len(parts) : parts[i].raised THEN Raises
            ELSE Join(<<" ">>, Flatten([i \in 1..Len(parts) |-> parts[i].v.items]))

\* comment_text of a comment with this body
CommentText(comment_body) ==
  IF IsDict(comment_body)
    THEN _extract_text_from_jira_body(comment_body)
    ELSE Ok(PyStr(Str(comment_body)))

\* what the check returns, and whether it returned from its except clause
CheckReturn(exists, failed) == [exists |-> exists, failed |-> failed]

RECURSIVE CheckFrom(_, _)
\* the loop over the comments, from the i-th on
CheckFrom(bodies, i) ==
  IF i > Len(bodies) THEN CheckReturn(FALSE, FALSE)
  ELSE LET comment_text == CommentText(bodies[i]) IN
       IF comment_text.raised THEN CheckReturn(FALSE, TRUE)
       ELSE IF Contains(comment_text.v.s, CreatedPhrase) THEN CheckReturn(TRUE, FALSE)
       ELSE CheckFrom(bodies, i + 1)

\* a bug: the comments are not looked at
_qa_plan_already_exists_never(fetched, bodies) == CheckReturn(FALSE, FALSE)

\* _qa_plan_already_exists(issue_key): fetched is whether get_issue returned, bodies the
\* bodies of the comments it returned
_qa_plan_already_exists(fetched, bodies) ==
  IF ~fetched THEN CheckReturn(FALSE, TRUE) ELSE CheckFrom(bodies, 1)

\* a comment a person wrote
OtherComment == CommentBody(<<"o","k">>)

\* the comment of an earlier run, as a plain string body
StringComment == PyStr(CreatedPhrase \o <<" ">> \o SheetUrl)

\* the phrase in the second paragraph of a comment, after a line break node
SecondParagraphComment ==
  Doc(<<Paragraph(<<TextNode(PyStr(<<"o","k">>)), HardBreak>>),
        Paragraph(<<TextNode(PyStr(CreatedPhrase))>>)>>)

\* a comment whose content is not made of nodes
BrokenComment == Doc(<<PyInt(5)>>)

CommentPool ==
  {QaPlanComment(SheetUrl), OtherComment, StringComment, SecondParagraphComment,
   BrokenComment, CommentBody(warning_message), CommentBody(error_message)}

InitApp ==
  /\ SheetInit({<< >>})
  /\ AdfIdle
  /\ SegmentIdle
  /\ PlatformIdle
  /\ comments \in SeqsUpTo(CommentPool, MaxComments)
  /\ comments0 = comments
  /\ app_pc = "idle"
  /\ status = "none"
  /\ effects = << >>
  /\ check = CheckReturn(FALSE, FALSE)
  /\ runs = 0

\* what every step of a run leaves alone
AppFrame ==
  /\ UNCHANGED <<adfVars, segVars, platVars>>
  /\ UNCHANGED sheetVars

\* add_comment: the comment is on the issue when the request succeeds
AddComment(body, ok) == IF ok THEN Append(comments, body) ELSE comments

\* create_qa_test_plan up to the copy: the check and the skipped return
create_qa_test_plan ==
  /\ app_pc = "idle"
  /\ runs < MaxRuns
  /\ runs' = runs + 1
  /\ comments0' = comments
  /\ effects' = << >>
  /\ UNCHANGED comments
  /\ \E fetched \in BOOLEAN :
       /\ check' = _qa_plan_already_exists(fetched, comments)
       /\ IF check'.exists
            THEN status' = "skipped" /\ app_pc' = "idle"
            ELSE status' = "none" /\ app_pc' = "copy"
  /\ AppFrame

\* sheets_manager.create_qa_test_plan: copy the template, rename, move; an exception
\* goes to the outer handler, before the copy or after it
CreateSheet ==
  /\ app_pc = "copy"
  /\ \E copied \in BOOLEAN, ok \in BOOLEAN :
       /\ ok => copied
       /\ effects' = IF copied THEN Append(effects, "copy") ELSE effects
       /\ app_pc' = IF ok THEN "parse" ELSE "error_notify"
  /\ UNCHANGED <<comments, comments0, status, check, runs>>
  /\ AppFrame

\* ticket_parser.extract_platform_from_labels and parse_goals_field: goals are found,
\* or none, or an exception goes to the outer handler
ParseTicket ==
  /\ app_pc = "parse"
  /\ \E outcome \in {"goals", "no goals", "raises"} :
       app_pc' = CASE outcome = "goals" -> "customize"
                   [] outcome = "no goals" -> "warn"
                   [] OTHER -> "error_notify"
  /\ UNCHANGED <<comments, comments0, status, effects, check, runs>>
  /\ AppFrame

\* sheet_customizer.customize_sheet_with_goals; its exception is logged and dropped
CustomizeSheet ==
  /\ app_pc = "customize"
  /\ effects' = Append(effects, "customize")
  /\ app_pc' = "post"
  /\ UNCHANGED <<comments, comments0, status, check, runs>>
  /\ AppFrame

\* no goals: the warning comment; its exception is logged and dropped
PostWarning ==
  /\ app_pc = "warn"
  /\ \E ok \in BOOLEAN : comments' = AddComment(CommentBody(warning_message), ok)
  /\ effects' = Append(effects, "comment")
  /\ app_pc' = "post"
  /\ UNCHANGED <<comments0, status, check, runs>>
  /\ AppFrame

\* jira_client.post_qa_plan_comment, then the success return
PostQaPlanComment ==
  /\ app_pc = "post"
  /\ effects' = Append(effects, "comment")
  /\ \E ok \in BOOLEAN :
       /\ comments' = AddComment(QaPlanComment(SheetUrl), ok)
       /\ IF ok THEN status' = "success" /\ app_pc' = "idle"
               ELSE status' = "none" /\ app_pc' = "post_failed"
  /\ UNCHANGED <<comments0, check, runs>>
  /\ AppFrame

\* the comment could not be posted: the error notification, then partial_success
NotifyPostFailed ==
  /\ app_pc = "post_failed"
  /\ effects' = Append(effects, "comment")
  /\ \E ok \in BOOLEAN : comments' = AddComment(CommentBody(error_message), ok)
  /\ status' = "partial_success"
  /\ app_pc' = "idle"
  /\ UNCHANGED <<comments0, check, runs>>
  /\ AppFrame

\* the outer handler: the error notification, then raise
NotifyError ==
  /\ app_pc = "error_notify"
  /\ effects' = Append(effects, "comment")
  /\ \E ok \in BOOLEAN : comments' = AddComment(CommentBody(error_message), ok)
  /\ status' = "raise"
  /\ app_pc' = "idle"
  /\ UNCHANGED <<comments0, check, runs>>
  /\ AppFrame

NextApp ==
  \/ create_qa_test_plan
  \/ CreateSheet
  \/ ParseTicket
  \/ CustomizeSheet
  \/ PostWarning
  \/ PostQaPlanComment
  \/ NotifyPostFailed
  \/ NotifyError

SpecApp == InitApp /\ [][NextApp]_vars

(***************************************************************************)
(* Properties of prune_platform_tabs, checked under SpecPrune.             *)
(***************************************************************************)
\* the current (or last) prune call got the tab list: its metadata fetch returned
PruneFetched == reqs /= << >> /\ reqs[1].kind = "get" /\ reqs[1].ok

\* the title contains the token, case-insensitively
HasToken(title, tok) == Contains(Lower(title), Lower(tok))

HasAnyToken(title) == \E k \in 1..Len(platform_tokens) : HasToken(title, platform_tokens[k])

\* the selected title's token: the first recognized token it contains, if any
SelTokens ==
  {platform_tokens[k] : k \in {k \in 1..Len(platform_tokens) :
     /\ HasToken(selected_platform_tab, platform_tokens[k])
     /\ \A m \in 1..(k - 1) : ~HasToken(selected_platform_tab, platform_tokens[m])}}

HasSelToken(title) == \E t \in SelTokens : HasToken(title, t)

\* the selected platform is located among the tabs the call began with
SelectedLocated ==
  \E j \in 1..Len(tabs0) :
    tabs0[j].title = selected_platform_tab \/ HasSelToken(tabs0[j].title)

Protected(title) == title = selected_platform_tab \/ title = ComplexityRisk

ScheduledIds == DeletedIds(delete_requests)

\* the sheetIds every batchUpdate of the call asks to delete
RequestedDeletes ==
  UNION {DeletedIds(reqs[i].requests) : i \in {i \in 1..Len(reqs) : reqs[i].kind = "batchUpdate"}}

\* C1: no tab whose title is the selected title or 'Complexity & Risk' is ever scheduled
\* for deletion or asked to be deleted, and each such tab of the spreadsheet the call
\* began with is still a tab of the spreadsheet, during the call and after it.
C1_ProtectedTabsSurvive ==
  \A j \in 1..Len(tabs0) :
    Protected(tabs0[j].title) =>
      /\ tabs0[j].sheetId \notin ScheduledIds \cup RequestedDeletes
      /\ \E k \in 1..Len(tabs) : tabs[k] = tabs0[j]

\* C1 happens: a call deleted a tab of a spreadsheet that held both protected tabs
C1_Witness ==
  /\ Len(tabs) < Len(tabs0)
  /\ selected_platform_tab \in TitleSet(tabs0)
  /\ ComplexityRisk \in TitleSet(tabs0)
  /\ selected_platform_tab /= ComplexityRisk

\* C2: when the tab list was fetched and no tab has the selected title or contains the
\* selected title's token, the call is over, has returned True, has issued no request
\* but the fetch, has scheduled nothing, and the tabs are the ones it began with.
C2_UnlocatedSelectionIsNoOp ==
  (PruneFetched /\ ~SelectedLocated) =>
    /\ pc = "idle"
    /\ result = PyTrue
    /\ Len(reqs) = 1
    /\ delete_requests = << >>
    /\ tabs = tabs0

\* C2 happens: the selection is not located although recognized platform tabs exist
C2_Witness ==
  /\ PruneFetched
  /\ ~SelectedLocated
  /\ result = PyTrue
  /\ \E j \in 1..Len(tabs) : HasAnyToken(tabs[j].title)
  /\ SelTokens /= {}

\* C3: a prune call that repeats, with the same selected title, a prune call that
\* returned normally schedules no deletion, issues no delete request and leaves the
\* tab list as it found it.
C3_PruneIdempotent ==
  (repeat /\ PruneFetched) =>
    /\ delete_requests = << >>
    /\ RequestedDeletes = {}
    /\ pc = "idle"
    /\ tabs = tabs0

\* C3 happens: the repeated call follows a call that deleted tabs
C3_Witness ==
  /\ repeat
  /\ PruneFetched
  /\ prevDeleted > 0
  /\ result = PyTrue

NonEmptyAt == {j \in 1..Len(args.goals) : \E k \in 1..Len(args.goals[j]) :
                 args.goals[j][k] \notin Whitespace}

\* n: the number of non-empty goals
NumGoals == Cardinality(NonEmptyAt)

\* the requests with this op of every batchUpdate of the call, as <<batch, place>>
RequestsOf(op) ==
  {bk \in (1..Len(reqs)) \X (1..4) :
     /\ reqs[bk[1]].kind = "batchUpdate"
     /\ bk[2] <= Len(reqs[bk[1]].requests)
     /\ reqs[bk[1]].requests[bk[2]].op = op}

Req(bk) == reqs[bk[1]].requests[bk[2]]

InsertRequests == RequestsOf("insertDimension")
CopyRequests == RequestsOf("copyPaste")
WriteRequests == {i \in 1..Len(reqs) : reqs[i].kind = "valuesUpdate"}

\* the destination tab is resolved
Resolved == tab_id /= << >>

\* the call returned normally after writing goals
Succeeded == result.kind = "return" /\ Resolved

\* the rows of the resolved tab now, and when the call began
TabRows == Rows(grid, tab_id[1])
TabRows0 == Rows(grid0, tab_id[1])

\* the tab of the spreadsheet with the resolved title has the resolved id
ResolvedTabIs(id) ==
  \E j \in 1..Len(tabs0) : tabs0[j].title = tab_name /\ tabs0[j].sheetId = id

\* C5: a call with n non-empty goals whose tab is resolved issues no insert-rows request
\* when n <= 3 and, when n > 3, exactly one, of n - 3 rows; no call issues more than one.
C5_InsertOnlyOverflow ==
  /\ Cardinality(InsertRequests) <= 1
  /\ \A bk \in InsertRequests : Req(bk).endIndex - Req(bk).startIndex = NumGoals - 3
  /\ NumGoals <= 3 => InsertRequests = {}
  /\ (Resolved /\ pc /= "insert" /\ NumGoals > 3) => Cardinality(InsertRequests) = 1

\* C5 happens: a call with 5 goals returned after one insert of 2 rows
C5_Witness ==
  /\ Succeeded
  /\ NumGoals = 5
  /\ \E bk \in InsertRequests : Req(bk).endIndex - Req(bk).startIndex = 2

\* C6: an insert-rows request names the resolved tab and the 0-based rows
\* [start_row - 1 + 3, start_row - 1 + 3 + rows_to_insert), and once it is applied the new
\* rows are the rows start_row + 3 .. start_row + 2 + rows_to_insert of that tab, right
\* after the 3 placeholder rows, every other row keeping its order.
C6_InsertAfterPlaceholders ==
  /\ \A bk \in InsertRequests :
       /\ ResolvedTabIs(Req(bk).sheetId)
       /\ Req(bk).dimension = "ROWS"
       /\ Req(bk).startIndex = start_row - 1 + 3
       /\ Req(bk).endIndex = start_row - 1 + 3 + (NumGoals - 3)
  /\ \A bk \in InsertRequests :
       reqs[bk[1]].ok =>
         LET rows == TabRows
             rows0 == TabRows0
             k == NumGoals - 3
         IN  /\ Len(rows) = Len(rows0) + k
             /\ \A r \in 1..Len(rows) :
                  rows[r].orig =
                    IF r <= start_row + 2 THEN rows0[r].orig
                    ELSE IF r <= start_row + 2 + k THEN 0
                    ELSE rows0[r - k].orig

\* C6 happens: start row 23 with 5 goals, rows 25..26 (0-based) inserted
C6_Witness ==
  /\ start_row = 23
  /\ NumGoals = 5
  /\ \E bk \in InsertRequests :
       /\ reqs[bk[1]].ok
       /\ Req(bk).startIndex = 25
       /\ Req(bk).endIndex = 27
  /\ TabRows[26].orig = 0 /\ TabRows[27].orig = 0 /\ TabRows[25].orig = 25

\* the rows the insert-rows requests of the call added to the spreadsheet
RowsInserted ==
  IF Resolved THEN Len(TabRows) - Len(TabRows0) ELSE 0

\* C7: a call that returns normally returns max(0, n - 3), n the number of goals it
\* wrote, which is the number of rows its insert-rows request added (0 without one).
C7_ReturnsInsertedRows ==
  result.kind = "return" =>
    /\ result.val = (IF NumGoals > 3 THEN NumGoals - 3 ELSE 0)
    /\ result.val = RowsInserted
    /\ InsertRequests = {} => result.val = 0
    /\ \A bk \in InsertRequests :
         reqs[bk[1]].ok /\ result.val = Req(bk).endIndex - Req(bk).startIndex

\* C7 happens: a call with rows inserted returned their number
C7_Witness ==
  /\ Succeeded
  /\ result.val > 0
  /\ InsertRequests /= {}

\* the place, among the non-empty goals, of the goal at position j of the argument
RankOf(j) == Cardinality({i \in NonEmptyAt : i <= j})

\* C8: after a call that returned normally, column B of the resolved tab holds the i-th
\* non-empty goal of the argument, stripped, in row start_row + i - 1, for i = 1 .. n;
\* no other row or column of that tab holds a value, no other tab was written, and the
\* one value write names column B, rows start_row .. start_row + n - 1 of that tab.
C8_GoalsInColumnB ==
  Succeeded =>
    /\ LET rows == TabRows
           n == NumGoals
       IN  /\ \A j \in NonEmptyAt :
                rows[start_row + RankOf(j) - 1].cells = ("B" :> Strip(args.goals[j]))
           /\ \A r \in 1..Len(rows) :
                r \notin start_row..(start_row + n - 1) => rows[r].cells = << >>
    /\ DOMAIN grid \subseteq {tab_id[1]}
    /\ Cardinality(WriteRequests) = 1
    /\ \A i \in WriteRequests :
         /\ reqs[i].range.sheet = tab_name
         /\ ResolvedTabIs(tab_id[1])
         /\ reqs[i].range.col1 = "B" /\ reqs[i].range.col2 = "B"
         /\ reqs[i].range.row1 = start_row
         /\ reqs[i].range.row2 = start_row + NumGoals - 1
         /\ Len(reqs[i].values) = NumGoals
         /\ \A k \in 1..Len(reqs[i].values) : Len(reqs[i].values[k]) = 1

\* C8 happens: goals with a blank entry among them were written in order
C8_Witness ==
  /\ Succeeded
  /\ NumGoals >= 2
  /\ NumGoals < Len(args.goals)
  /\ TabRows[start_row].cells /= TabRows[start_row + 1].cells

\* the sheet columns, by letter, of a 0-based half-open column span
ColumnLetters(rng) == {UpperChars[c + 1] : c \in rng.startColumnIndex..(rng.endColumnIndex - 1)}

ColumnsCToL == {"C", "D", "E", "F", "G", "H", "I", "J", "K", "L"}

\* C9: every copy request takes the one row start_row as its source and the n rows
\* start_row .. start_row + n - 1 of the same tab as its destination, over columns C to L
\* in both; once applied, each of those rows carries what row start_row carried.
C9_CopyTemplateRow ==
  /\ \A bk \in CopyRequests :
       LET src == Req(bk).source
           dst == Req(bk).destination
       IN  /\ ResolvedTabIs(src.sheetId) /\ dst.sheetId = src.sheetId
           /\ src.startRowIndex = start_row - 1 /\ src.endRowIndex = start_row
           /\ dst.startRowIndex = start_row - 1 /\ dst.endRowIndex = start_row - 1 + NumGoals
           /\ ColumnLetters(src) = ColumnsCToL /\ ColumnLetters(dst) = ColumnsCToL
  /\ \A bk \in CopyRequests :
       reqs[bk[1]].ok =>
         LET rows == TabRows
             n == NumGoals
             type == Req(bk).pasteType
         IN  \A r \in 1..Len(rows) :
               rows[r].attr[type] =
                 IF r \in start_row..(start_row + n - 1) THEN start_row
                 ELSE rows[r].orig

\* C9 happens: start row 23 with 5 goals, row 23 copied to rows 23-27
C9_Witness ==
  /\ start_row = 23
  /\ NumGoals = 5
  /\ \E bk \in CopyRequests : reqs[bk[1]].ok
  /\ \A r \in 23..27 : TabRows[r].attr["PASTE_FORMAT"] = 23
  /\ TabRows[26].orig = 0

\* C10 as claimed: source and destination of every copy request span the columns 3
\* through 11 (startColumnIndex = 3, endColumnIndex = 11).
C10_Columns3To11 ==
  \A bk \in CopyRequests :
    /\ Req(bk).source.startColumnIndex = 3 /\ Req(bk).source.endColumnIndex = 11
    /\ Req(bk).destination.startColumnIndex = 3 /\ Req(bk).destination.endColumnIndex = 11

\* C10 amended: source and destination of every copy request span the columns 2
\* through 12, 0-indexed half-open (startColumnIndex = 2, endColumnIndex = 12).
C10_Columns2To12 ==
  \A bk \in CopyRequests :
    /\ Req(bk).source.startColumnIndex = 2 /\ Req(bk).source.endColumnIndex = 12
    /\ Req(bk).destination.startColumnIndex = 2 /\ Req(bk).destination.endColumnIndex = 12

\* C10 happens: a call has issued its copy requests
C10_Witness ==
  /\ Cardinality(CopyRequests) = 4
  /\ \E bk \in CopyRequests : reqs[bk[1]].ok

\* the batchUpdate requests of the call that carry a copyPaste
CopyBatches ==
  {i \in 1..Len(reqs) :
     /\ reqs[i].kind = "batchUpdate"
     /\ \E k \in 1..Len(reqs[i].requests) : reqs[i].requests[k].op = "copyPaste"}

\* C11: a call issues at most one batchUpdate with copyPaste requests, and exactly one
\* once its copy step is passed; that batch holds the four paste kinds, each once and
\* nothing else, with one source and one destination; in the spreadsheet every row
\* carries the four kinds from the same row: all four were applied, or none.
C11_FourPasteKindsOneBatch ==
  /\ Cardinality(CopyBatches) <= 1
  /\ (Resolved /\ (pc = "write" \/ Succeeded)) => Cardinality(CopyBatches) = 1
  /\ \A i \in CopyBatches :
       LET rs == reqs[i].requests IN
       /\ Len(rs) = 4
       /\ \A k \in 1..Len(rs) : rs[k].op = "copyPaste"
       /\ {rs[k].pasteType : k \in 1..Len(rs)} = PasteTypes
       /\ \A k \in 1..Len(rs) :
            rs[k].source = rs[1].source /\ rs[k].destination = rs[1].destination
  /\ Cardinality(CopyRequests) \in {0, 4}
  /\ Resolved =>
       LET rows == TabRows IN
       \A r \in 1..Len(rows) : \A t \in PasteTypes :
         rows[r].attr[t] = rows[r].attr["PASTE_FORMAT"]

\* C11 happens: the batch of four was refused, and no paste kind was applied
C11_Witness ==
  /\ Cardinality(CopyBatches) = 1
  /\ \A i \in CopyBatches : ~reqs[i].ok /\ Len(reqs[i].requests) = 4
  /\ result = Raised
  /\ NumGoals >= 2
  /\ \A t \in PasteTypes : TabRows[start_row + 1].attr[t] /= start_row

\* the requests that set the text format of cells
FormatRequests == RequestsOf("updateCells") \cup RequestsOf("repeatCell")

\* C12 as claimed: a call that wrote its goals has, after the write, issued a request
\* that sets the bold-first-line text format of column B of the goal rows.
C12_BoldFirstLineApplied ==
  Succeeded =>
    \E bk \in FormatRequests : \E i \in WriteRequests : bk[1] > i

\* C12's case: goals, one of them with an inner line break, were written and the call
\* returned
C12_Witness ==
  /\ Succeeded
  /\ \E j \in NonEmptyAt : \E k \in 1..Len(args.goals[j]) :
       /\ args.goals[j][k] = "\n"
       /\ TabRows[start_row + RankOf(j) - 1].cells = ("B" :> Strip(args.goals[j]))
  /\ reqs[Len(reqs)].kind = "valuesUpdate"

\* the bracketed token of a title: from its first "[" to its first "]" after it, if
\* both are there in that order
BracketToken(title) ==
  LET opens  == {i \in 1..Len(title) : title[i] = "["}
      closes == {i \in 1..Len(title) : title[i] = "]"}
  IN  IF opens = {} \/ closes = {} THEN << >>
      ELSE LET i == CHOOSE x \in opens : \A y \in opens : x <= y
               j == CHOOSE x \in closes : \A y \in closes : x <= y
           IN  IF j > i THEN SubSeq(title, i, j) ELSE << >>

\* the start row the table gives a title
TableStartRow(title) ==
  LET tok == LowerOf(BracketToken(title)) IN
  CASE tok = <<"[","m","o","n","e","t","a","t","e","]">> -> 23
    [] tok = <<"[","v","w","o","]">> -> 26
    [] tok = <<"[","c","o","n","v","e","r","t","]">> -> 27
    [] tok = <<"[","o","p","t","i","m","i","z","e","l","y","]">> -> 28
    [] OTHER -> 28

C14_EmptyGoalsNoOp ==
  (ncalls = 1 /\ args.goals = << >>) =>
    /\ pc = "idle"
    /\ result.kind = "return" /\ result.val = 0
    /\ reqs = << >>
    /\ tabs = tabs0 /\ grid = grid0
    /\ ~Resolved

\* C14 happens: an empty list for a tab that does not exist
C14_Witness ==
  /\ ncalls = 1
  /\ args.goals = << >>
  /\ args.tab_name = TWeb
  /\ TWeb \notin TitleSet(tabs)
  /\ result = Return(0)

\* the token of the requested title
RequestedToken == BracketToken(args.tab_name)

\* the tabs, when the call began, whose title contains the requested title's token
TokenTabs ==
  IF RequestedToken = << >> THEN {}
  ELSE {j \in 1..Len(tabs0) : HasToken(tabs0[j].title, RequestedToken)}

\* a call with goals to write, for a title no tab has
NoExactTab == ncalls = 1 /\ NumGoals > 0 /\ args.tab_name \notin TitleSet(tabs0)

AllAnswered == \A i \in 1..Len(reqs) : reqs[i].ok

\* C15: when no tab has the requested title and some tab's title contains its token,
\* the call raises only if a request is refused; once the two lookups are answered the
\* tab is resolved to such a tab, by its actual title and sheetId, and the start row,
\* the insert, the copies and the range of the value write are those of that tab.
C15_TokenFallbackSubstitutes ==
  (NoExactTab /\ TokenTabs /= {}) =>
    /\ result.kind = "raise" => ~AllAnswered
    /\ (pc = "idle" /\ AllAnswered) => Succeeded
    /\ (Len(reqs) >= 2 /\ reqs[1].ok /\ reqs[2].ok) =>
         /\ Resolved
         /\ \E j \in TokenTabs : tabs0[j].title = tab_name /\ tabs0[j].sheetId = tab_id[1]
         /\ start_row = TableStartRow(tab_name)
         /\ \A bk \in InsertRequests : Req(bk).sheetId = tab_id[1]
         /\ \A bk \in CopyRequests :
              Req(bk).source.sheetId = tab_id[1] /\ Req(bk).destination.sheetId = tab_id[1]
         /\ \A i \in WriteRequests : reqs[i].range.sheet = tab_name

\* C15 happens: '[OPTIMIZELY] P1' was asked for, '[optimizely] v2' was customized
C15_Witness ==
  /\ NoExactTab
  /\ args.tab_name = TOptimizelyUp
  /\ tab_name = TOptimizelyV2
  /\ Succeeded
  /\ InsertRequests /= {}

\* C16: when no tab has the requested title and none contains its token, the call
\* issues only metadata lookups, resolves no tab, leaves the spreadsheet as it was, and
\* ends by raising.
C16_UnresolvedRaises ==
  (NoExactTab /\ TokenTabs = {}) =>
    /\ \A i \in 1..Len(reqs) : reqs[i].kind = "get"
    /\ ~Resolved
    /\ tab_name = args.tab_name
    /\ tabs = tabs0 /\ grid = grid0
    /\ pc = "idle" => result.kind = "raise"

\* C16 happens: '[Other] QA' is asked for, no tab has the title or the token, and the
\* call raised after its three lookups
C16_Witness ==
  /\ NoExactTab /\ TokenTabs = {}
  /\ args.tab_name = TOther
  /\ pc = "idle"
  /\ Len(reqs) = 3 /\ AllAnswered
  /\ result.kind = "raise"

\* the call raised the tab-not-found exception
NotFoundException == result.kind = "raise" /\ "message" \in DOMAIN result

\* C17 as claimed: the message of the tab-not-found exception carries the list of the
\* spreadsheet's tab titles.
C17_MessageCarriesTitles ==
  NotFoundException =>
    /\ "available_titles" \in DOMAIN result.message
    /\ result.message.available_titles = Titles(tabs0)

\* C17 amended: a call that cannot resolve its tab, its lookups answered, writes one
\* error record that carries the requested title and the full list of tab titles, and
\* raises an exception whose message carries the requested title only.
C17_TitlesLoggedNotRaised ==
  /\ (NoExactTab /\ TokenTabs = {} /\ pc = "idle" /\ AllAnswered) => NotFoundException
  /\ NotFoundException =>
       /\ Len(error_log) = 1
       /\ error_log[1].tab_name = args.tab_name
       /\ error_log[1].available_titles = Titles(tabs0)
       /\ DOMAIN result.message = {"text", "tab_name"}
       /\ result.message.tab_name = args.tab_name
  /\ ~NotFoundException => error_log = << >>

\* C17 happens: the tab was not found on a spreadsheet of two tabs, both logged
C17_Witness ==
  /\ NotFoundException
  /\ Len(tabs0) = 2
  /\ Len(error_log) = 1
  /\ Len(error_log[1].available_titles) = 2

(***************************************************************************)
(* Properties of the ADF extractor, checked under SpecAdf.                 *)
(***************************************************************************)
RECURSIVE HasNonEmptyText(_)
\* some text node of the tree has a non-empty text
HasNonEmptyText(v) ==
  /\ IsDict(v)
  /\ \/ /\ "type" \in DOMAIN v.d /\ v.d["type"] = PyStr(TextT)
        /\ "text" \in DOMAIN v.d /\ v.d["text"].t = "str" /\ v.d["text"].s /= << >>
     \/ /\ "content" \in DOMAIN v.d /\ v.d["content"].t = "list"
        /\ \E i \in 1..Len(v.d["content"].items) : HasNonEmptyText(v.d["content"].items[i])

\* C18 as claimed: for a document built from the recognized node types only,
\* _convert_adf_to_text returns a non-empty string if and only if some text node of
\* the document has a non-empty text.
C18_NonEmptyIffText ==
  (adf_fn = "_convert_adf_to_text" /\ adf_input \in RecognizedDocs) =>
    ((~adf_result.raised /\ adf_result.v /= EmptyStr) <=> HasNonEmptyText(adf_input))

\* C18's case: a document of recognized nodes, one of them a text node with text, was
\* converted to that text
C18_Witness ==
  /\ adf_fn = "_convert_adf_to_text"
  /\ adf_input = Doc(<<Paragraph(<<TextA, HardBreak>>)>>)
  /\ adf_result = Ok(PyStr(<<"a", "\n">>))

\* C19 as claimed: whatever the input, neither function raises and each returns a str.
C19_NeverRaisesReturnsStr ==
  adf_fn /= "none" => (~adf_result.raised /\ adf_result.v.t = "str")

\* C19's case: a document whose content cannot be iterated was converted to its string
\* form
C19_Witness ==
  /\ adf_fn = "_convert_adf_to_text"
  /\ adf_input = Node(DocT, PyInt(5))
  /\ adf_result = Ok(PyStr(Repr(adf_input)))

(***************************************************************************)
(* Properties of the goal segmentation, checked under SpecSegment.         *)
(***************************************************************************)
\* the positions where a marker starts: a run of digits, not preceded by a digit,
\* followed by a period and a whitespace character
Markers ==
  {i \in 1..Len(plain_text) :
     /\ plain_text[i] \in DigitSet
     /\ i = 1 \/ plain_text[i - 1] \notin DigitSet
     /\ \E j \in i..Len(plain_text) :
          /\ \A k \in i..j : plain_text[k] \in DigitSet
          /\ j + 2 <= Len(plain_text)
          /\ plain_text[j + 1] = "."
          /\ plain_text[j + 2] \in Whitespace}

\* the text between the marker at m and the next marker, or the end
BodyOf(m) ==
  LET first == (CHOOSE j \in m..Len(plain_text) : plain_text[j] = ".") + 2
      later == {x \in Markers : x > m}
      last  == IF later = {} THEN Len(plain_text)
               ELSE (CHOOSE x \in later : \A y \in later : x <= y) - 1
  IN  SubSeq(plain_text, first, last)

\* the markers whose body is not empty once trimmed
LiveMarkers ==
  {m \in Markers : \E k \in 1..Len(BodyOf(m)) : BodyOf(m)[k] \notin Whitespace}

\* the k-th smallest element of S
Kth(S, k) == CHOOSE m \in S : Cardinality({x \in S : x < m}) = k - 1

\* C20 as claimed: a text with N markers is segmented into exactly N goals, the k-th
\* goal the trimmed body of the k-th marker.
C20_OneGoalPerMarker ==
  segmented =>
    /\ Len(goal_list) = Cardinality(Markers)
    /\ \A k \in 1..Len(goal_list) : goal_list[k] = Strip(BodyOf(Kth(Markers, k)))

\* C20 amended: the goals are, in source order, the trimmed bodies, markers stripped,
\* of the markers whose body is not empty once trimmed; a text without markers gives
\* the empty list.
C20_OneGoalPerNonEmptyBody ==
  segmented =>
    /\ Len(goal_list) = Cardinality(LiveMarkers)
    /\ \A k \in 1..Len(goal_list) : goal_list[k] = Strip(BodyOf(Kth(LiveMarkers, k)))
    /\ Markers = {} => goal_list = << >>

\* C20 happens: "1. a1. a" gave two goals
C20_Witness ==
  /\ segmented
  /\ plain_text = <<"1", ".", " ", "a", "1", ".", " ", "a">>
  /\ goal_list = << <<"a">>, <<"a">> >>

(***************************************************************************)
(* Properties of _extract_platform_from_labels, checked under SpecPlatform.*)
(***************************************************************************)
\* the platform names the function can return, in the order of the known keys
PlatformNames ==
  << <<"W","e","b">>, <<"M","o","b","i","l","e">>, <<"B","a","c","k","e","n","d">>,
     <<"E","m","a","i","l">>, <<"P","u","s","h">>, <<"S","m","s">> >>

\* an extraction has been made
Extracted == platform /= << >>

\* C21: platform resolution with an empty label list returns the default platform
\* "Web" on every call, whatever the calls before it returned and whatever tabs the
\* spreadsheet has
C21_EmptyLabelsDefault ==
  /\ empty_results \subseteq {PlatformNames[1]}
  /\ (Extracted /\ labels = << >>) => platform = PlatformNames[1]

\* C21 witness: an extraction with no label returned "Web" right after an extraction
\* that returned another platform, for a spreadsheet of two tabs
C21_Witness ==
  /\ Extracted
  /\ labels = << >>
  /\ platform = PlatformNames[1]
  /\ empty_results = {PlatformNames[1]}
  /\ prev_platform \notin {<< >>, PlatformNames[1]}
  /\ Len(tabs) = 2

\* the label has, in any case, a keyword of the k-th known platform key
MatchesKey(label, k) ==
  \E j \in 1..Len(platform_keywords[k].keywords) :
    Contains(LowerOf(label), LowerOf(platform_keywords[k].keywords[j]))

\* the known platform keys the label matches
KeysOfLabel(label) == {k \in 1..Len(platform_keywords) : MatchesKey(label, k)}

\* the positions of the labels that match a key
MatchingLabels == {i \in 1..Len(labels) : KeysOfLabel(labels[i]) /= {}}

\* the least number of a non-empty set of numbers
Least(S) == CHOOSE x \in S : \A y \in S : x <= y

\* C22: the labels are checked case-insensitively against the known platform keys in
\* list order; the platform of the first label that matches (its first key in the
\* enumeration) is returned whatever the later labels are, and "Web" is returned when
\* no label matches
C22_FirstMatchingLabelWins ==
  Extracted =>
    IF MatchingLabels = {}
      THEN platform = PlatformNames[1]
      ELSE platform = PlatformNames[Least(KeysOfLabel(labels[Least(MatchingLabels)]))]

\* C22 witness: the first label matches "mobile" in another case, the second label
\* matches "web", and "Mobile" is returned
C22_Witness ==
  /\ Extracted
  /\ Len(labels) = 2
  /\ labels[1] = <<"i","O","S">>
  /\ KeysOfLabel(labels[2]) = {1}
  /\ platform = PlatformNames[2]

(***************************************************************************)
(* Further properties of prune_platform_tabs, checked under SpecPrune.     *)
(***************************************************************************)
\* the places in reqs of the batchUpdate requests of the current (or last) call
DeleteBatches == {i \in 1..Len(reqs) : reqs[i].kind = "batchUpdate"}

\* the prune call is over
PruneOver == pc = "idle" /\ result /= NoResult

\* C23: a prune call issues at most one delete request: when tabs are scheduled, one
\* batchUpdate that holds exactly one deleteSheet entry for every scheduled tab; when
\* the tab list was fetched and no tab is scheduled, no delete request, and True
C23_AtMostOneDeleteRequest ==
  /\ Cardinality(DeleteBatches) <= 1
  /\ \A i \in DeleteBatches :
       /\ ScheduledIds /= {}
       /\ Len(reqs[i].requests) = Cardinality(ScheduledIds)
       /\ DeletedIds(reqs[i].requests) = ScheduledIds
       /\ \A k \in 1..Len(reqs[i].requests) : reqs[i].requests[k].op = "deleteSheet"
  /\ (PruneOver /\ PruneFetched /\ ScheduledIds /= {}) => Cardinality(DeleteBatches) = 1
  /\ (PruneOver /\ PruneFetched /\ ScheduledIds = {}) =>
       /\ DeleteBatches = {}
       /\ result = PyTrue

\* C23 witness: a call that scheduled two tabs is over and deleted both
C23_Witness ==
  /\ PruneOver
  /\ Cardinality(ScheduledIds) = 2
  /\ Cardinality(DeleteBatches) = 1
  /\ Len(tabs) = Len(tabs0) - 2
  /\ result = PyTrue

\* the rows of the tab with this sheetId are the rows it had when the call began
RowsKept(id) == Rows(grid, id) = Rows(grid0, id)

\* C29: a tab whose title contains none of the four recognized platform tokens (in any
\* case) is never scheduled for deletion or asked to be deleted, whatever the selected
\* title: it is a tab of the spreadsheet, with its rows, during and after every call
C29_TokenlessTabsUntouched ==
  \A j \in 1..Len(tabs0) :
    ~HasAnyToken(tabs0[j].title) =>
      /\ tabs0[j].sheetId \notin ScheduledIds \cup RequestedDeletes
      /\ \E k \in 1..Len(tabs) : tabs[k] = tabs0[j]
      /\ RowsKept(tabs0[j].sheetId)

\* C29 witness: a call deleted a platform tab of a spreadsheet that has a tab without a
\* token, which is neither the selected tab nor 'Complexity & Risk'
C29_Witness ==
  /\ PruneOver
  /\ Len(tabs) < Len(tabs0)
  /\ \E j \in 1..Len(tabs0) :
       /\ ~HasAnyToken(tabs0[j].title)
       /\ ~Protected(tabs0[j].title)
       /\ tabs0[j].sheetId \in IdSet(tabs)

(***************************************************************************)
(* Further properties of customize_sheet_with_goals, checked under         *)
(* SpecCustomize.                                                          *)
(***************************************************************************)
\* what a request of the call does: "get" reads; "insert", "copy", "write" mutate
StepOf(r) ==
  IF r.kind = "get" THEN "get"
  ELSE IF r.kind = "valuesUpdate" THEN "write"
  ELSE IF r.requests[1].op = "insertDimension" THEN "insert"
  ELSE "copy"

\* the steps of the requests of the current (or last) call, in the order of issue
Steps == [i \in 1..Len(reqs) |-> StepOf(reqs[i])]

IsMutating(step) == step /= "get"

\* the steps of the mutating requests, in the order of issue
MutatingSteps == SelectSeq(Steps, IsMutating)

\* the mutating requests of a whole pipeline, with and without an insert
FullPipelines == {<<"insert", "copy", "write">>, <<"copy", "write">>}

\* s is the beginning of t
IsPrefix(s, t) == Len(s) <= Len(t) /\ s = SubSeq(t, 1, Len(s))

\* C24: when the first mutating request of a call is issued the tab is resolved, the
\* start row is looked up and rows_to_insert is max(0, n - 3), and no read follows a
\* mutating request; the mutating requests come in the order insert (when
\* rows_to_insert > 0), copy, write: no write before the copy, no copy before the insert
C24_PlanThenInsertCopyWrite ==
  /\ \A i \in 1..Len(reqs) : \A j \in (i + 1)..Len(reqs) :
       IsMutating(Steps[i]) => IsMutating(Steps[j])
  /\ \E p \in FullPipelines : IsPrefix(MutatingSteps, p)
  /\ (MutatingSteps /= << >> \/ pc \in {"insert", "copy", "write"}) =>
       /\ Resolved
       /\ \E j \in 1..Len(tabs0) :
            /\ tabs0[j].sheetId = tab_id[1]
            /\ tabs0[j].title = tab_name
       /\ start_row = TableStartRow(tab_name)
       /\ rows_to_insert = (IF NumGoals > 3 THEN NumGoals - 3 ELSE 0)
  /\ MutatingSteps /= << >> =>
       (MutatingSteps[1] = "insert") = (rows_to_insert > 0)

\* C24 witness: a call that resolved its tab by token has issued, after its two reads,
\* the insert, the copy and the write, and has returned
C24_Witness ==
  /\ Succeeded
  /\ Steps = <<"get", "get", "insert", "copy", "write">>
  /\ tab_name /= args.tab_name

\* the call has reached its write step: the value write is the next request or is issued
ReachedWrite == pc = "write" \/ WriteRequests /= {}

\* the 1-based rows a copy destination covers
DestinationRows(dst) == (dst.startRowIndex + 1)..dst.endRowIndex

\* the rows of the placeholder block and the rows the call inserted right after it
BlockRows == start_row..(start_row + 3 + RowsInserted - 1)

\* C28: in a call that reaches the write step, n <= 3 + rows_to_insert, and the rows of
\* the copy destination and of the value write, start_row .. start_row + n - 1, lie in
\* the 3 placeholder rows plus the rows the call inserted; every row that was below the
\* placeholder block when the call began is as it was, below the inserted rows
C28_WritesStayInBlock ==
  ReachedWrite =>
    LET n     == NumGoals
        rows  == TabRows
        rows0 == TabRows0
        k     == RowsInserted
    IN  /\ k = rows_to_insert
        /\ n <= 3 + rows_to_insert
        /\ \A bk \in CopyRequests :
             /\ DestinationRows(Req(bk).destination) = start_row..(start_row + n - 1)
             /\ DestinationRows(Req(bk).destination) \subseteq BlockRows
        /\ \A i \in WriteRequests :
             /\ reqs[i].range.row1..reqs[i].range.row2 = start_row..(start_row + n - 1)
             /\ reqs[i].range.row1..reqs[i].range.row2 \subseteq BlockRows
        /\ \A r \in (start_row + 3)..Len(rows0) : rows[r + k] = rows0[r]

\* C28 witness: a call wrote 5 goals into the 3 placeholder rows and the 2 rows it
\* inserted
C28_Witness ==
  /\ Succeeded
  /\ WriteRequests /= {}
  /\ NumGoals = 5
  /\ RowsInserted = 2
  /\ TabRows[start_row + 4].cells /= << >>
  /\ TabRows[start_row + 5] = TabRows0[start_row + 3]

\* the places in reqs of the mutating requests that failed
FailedMutations == {i \in 1..Len(reqs) : IsMutating(Steps[i]) /\ ~reqs[i].ok}

\* the insert request of the call was applied
InsertApplied == \E i \in 1..Len(reqs) : Steps[i] = "insert" /\ reqs[i].ok

\* the copy request of the call was applied
CopyApplied == \E i \in 1..Len(reqs) : Steps[i] = "copy" /\ reqs[i].ok

\* C30: when the insert, the copy or the write of a call fails, the call ends by raising,
\* the failed request is its last request, no request was issued twice, and nothing is
\* undone: the rows of an applied insert are still in the tab, without goal text (blank
\* when the copy failed), and without an applied insert the spreadsheet is as it was
C30_FailureStopsTheCall ==
  \A i \in FailedMutations :
    /\ i = Len(reqs)
    /\ pc = "idle"
    /\ result.kind = "raise"
    /\ \A j \in 1..Len(reqs) : \A k \in (j + 1)..Len(reqs) :
         IsMutating(Steps[j]) => Steps[j] /= Steps[k]
    /\ tabs = tabs0
    /\ LET rows == TabRows
           rows0 == TabRows0
       IN  /\ \A r \in 1..Len(rows) : rows[r].cells = << >>
           /\ IF InsertApplied
                THEN /\ rows_to_insert > 0
                     /\ Len(rows) = Len(rows0) + rows_to_insert
                     /\ ~CopyApplied =>
                          \A r \in (start_row + 3)..(start_row + 3 + rows_to_insert - 1) :
                            rows[r] = BlankRow
                ELSE Len(rows) = Len(rows0)
           /\ ~(InsertApplied \/ CopyApplied) => grid = grid0

\* C30 witness: the insert of 2 rows and the copy were applied, the write failed and the
\* call raised
C30_Witness ==
  /\ FailedMutations /= {}
  /\ Steps[Len(reqs)] = "write"
  /\ InsertApplied
  /\ CopyApplied
  /\ RowsInserted = 2
  /\ result.kind = "raise"

(***************************************************************************)
(* Reprocessing: the same call made twice, checked under SpecReprocess.    *)
(***************************************************************************)
\* C25: a second call with the arguments of the first, n > 3 goals, plans the insert of
\* n - 3 rows whatever the first call left in the tab; its applied insert adds n - 3
\* rows to the rows it found, so that after two applied inserts the tab has
\* 2 * (n - 3) rows more than the template
C25_ReprocessInsertsAgain ==
  (repeat /\ Resolved /\ NumGoals > 3) =>
    LET n == NumGoals IN
    /\ rows_to_insert = n - 3
    /\ pc = "insert" \/ \E i \in 1..Len(reqs) : Steps[i] = "insert"
    /\ \A bk \in InsertRequests : Req(bk).endIndex - Req(bk).startIndex = n - 3
    /\ InsertApplied => Len(TabRows) = Len(TabRows0) + (n - 3)
    /\ (InsertApplied /\ Len(TabRows0) = TemplateRows + (n - 3)) =>
         Len(TabRows) = TemplateRows + 2 * (n - 3)
    /\ Succeeded => result = Return(n - 3)

\* C25 witness: both calls with the same 5 goals returned 2, and the tab has 4 rows more
\* than the template
C25_Witness ==
  /\ repeat
  /\ Succeeded
  /\ NumGoals = 5
  /\ result = Return(2)
  /\ Len(TabRows0) = TemplateRows + 2
  /\ Len(TabRows) = TemplateRows + 4

(***************************************************************************)
(* The rendering of lists, checked under SpecAdf.                          *)
(***************************************************************************)
\* the children of a node: the items of its content
ChildrenOf(v) ==
  IF IsDict(v) /\ "content" \in DOMAIN v.d /\ v.d["content"].t = "list"
    THEN v.d["content"].items ELSE << >>

HasType(v, type) == IsDict(v) /\ "type" \in DOMAIN v.d /\ v.d["type"] = PyStr(type)

IsListNode(v) == HasType(v, OrderedListT) \/ HasType(v, BulletListT)

RECURSIVE NodesIn(_)
\* the node and the nodes below it
NodesIn(v) ==
  {v} \cup UNION {NodesIn(ChildrenOf(v)[i]) : i \in 1..Len(ChildrenOf(v))}

\* the extracted text of a child of a list: the texts extracted from its content
ChildText(child) ==
  Flatten([i \in 1..Len(ChildrenOf(child)) |->
             _extract_text_from_adf_node(ChildrenOf(child)[i]).v.s])

\* the numbers of the lines of an ordered list
NumberText == << <<"1">>, <<"2">>, <<"3">>, <<"4">>, <<"5">>, <<"6">>, <<"7">>, <<"8">>, <<"9">> >>

\* the line of the child at position i
LineOfChild(list, i) ==
  (IF HasType(list, OrderedListT) THEN NumberText[i] \o <<".", " ">> ELSE <<"-", " ">>)
  \o ChildText(ChildrenOf(list)[i])

RECURSIVE LinesFrom(_, _)
\* the lines of the children from position i on, one line per child with text, each
\* line after the first on a new line
LinesFrom(list, i) ==
  IF i > Len(ChildrenOf(list)) THEN << >>
  ELSE IF ChildText(ChildrenOf(list)[i]) = << >> THEN LinesFrom(list, i + 1)
  ELSE LET rest == LinesFrom(list, i + 1) IN
       LineOfChild(list, i) \o (IF rest = << >> THEN << >> ELSE <<"\n">> \o rest)

\* the text of a list
RenderedList(list) == LinesFrom(list, 1)

\* a call on a well-formed input in which every list is rendered
RendersLists ==
  \/ adf_fn = "_extract_text_from_adf_node" /\ adf_input \in RecognizedNodes \cup RecognizedDocs
  \/ adf_fn = "_convert_adf_to_text" /\ adf_input \in RecognizedDocs

\* C26: every orderedList node is numbered from 1, whatever list precedes or encloses
\* it: its child at position i with non-empty extracted text gives the line 'i. text',
\* a child with empty text gives no line; the children of a bulletList with non-empty
\* text give '- text' lines
C26_ListLinesNumberedFromOne ==
  RendersLists =>
    /\ ~adf_result.raised
    /\ adf_result.v.t = "str"
    /\ \A list \in NodesIn(adf_input) :
         IsListNode(list) => Contains(adf_result.v.s, RenderedList(list))
    /\ (adf_fn = "_extract_text_from_adf_node" /\ IsListNode(adf_input)) =>
         adf_result.v.s = RenderedList(adf_input)

\* C26 witness: an ordered list whose second item holds an ordered list of two items was
\* extracted; both lists are numbered 1, 2
C26_Witness ==
  /\ adf_fn = "_extract_text_from_adf_node"
  /\ adf_input \in NestedLists
  /\ adf_result =
       Ok(PyStr(<<"1", ".", " ", "a", "\n", "2", ".", " ", "a",
                  "1", ".", " ", "a", "\n", "2", ".", " ", "a">>))

(***************************************************************************)
(* Properties of create_qa_test_plan, checked under SpecApp.               *)
(***************************************************************************)
\* the text nodes of the paragraphs of a comment body
ParagraphTexts(body) ==
  {n \in NodesIn(body) :
     /\ HasType(n, TextT)
     /\ \E p \in NodesIn(body) :
          HasType(p, ParagraphT) /\ \E i \in 1..Len(ChildrenOf(p)) : ChildrenOf(p)[i] = n}

\* the comment contains 'QA Test Plan has been created:': its string body does, or the
\* text of a text node of one of its paragraphs
HasCreatedPhrase(body) ==
  \/ body.t = "str" /\ Contains(body.s, CreatedPhrase)
  \/ /\ IsDict(body)
     /\ \E n \in ParagraphTexts(body) :
          /\ "text" \in DOMAIN n.d
          /\ n.d["text"].t = "str"
          /\ Contains(n.d["text"].s, CreatedPhrase)

\* the issue had such a comment when the current run began
AlreadyCreated == \E i \in 1..Len(comments0) : HasCreatedPhrase(comments0[i])

\* a run has begun and its check has returned
Checked == runs > 0

\* the template was copied in the current run
Copied == \E i \in 1..Len(effects) : effects[i] = "copy"

\* C27: when the issue has a comment containing 'QA Test Plan has been created:' and the
\* check did not fail, the run returns 'skipped' at once, without a copy, a
\* customization or a comment post; a run copies the template only when its check found
\* no such comment or failed
C27_ExistingPlanIsSkipped ==
  /\ (Checked /\ AlreadyCreated /\ ~check.failed) =>
       /\ check.exists
       /\ status = "skipped"
       /\ app_pc = "idle"
       /\ effects = << >>
       /\ comments = comments0
  /\ (Checked /\ (app_pc /= "idle" \/ effects /= << >> \/ comments /= comments0)) =>
       /\ ~check.exists
       /\ ~AlreadyCreated \/ check.failed
  /\ (Checked /\ status = "skipped") <=> (Checked /\ check.exists)

\* C27 witness: the first run copied the template, customized the sheet and posted its
\* comment; the second run found that comment and was skipped
C27_Witness ==
  /\ runs = 2
  /\ status = "skipped"
  /\ effects = << >>
  /\ comments0 = <<QaPlanComment(SheetUrl)>>
  /\ comments = comments0

====
